---- MODULE Spec2Model ----
(***************************************************************************)
(* Model of the two numerical cores of ITKImageProcessing:                 *)
(*   - CalculateBackground (src/unnamed/part_000): threshold-gated         *)
(*     aggregation, averaging, least-squares surface, centering and the    *)
(*     in-place Subtract / Divide correction;                              *)
(*   - FFTConvolutionCostFunction (util/FFTConvolutionCostFunction.cpp):   *)
(*     Initialize, createOverlapPairs and the region rules, GetValue.      *)
(* double values are modelled as exact rationals <<n, d>> (d > 0), with    *)
(* <<0,0>> for NaN and <<1,0>>, <<-1,0>> for the infinities.               *)
(***************************************************************************)
EXTENDS Integers, Sequences, FiniteSets, TLC

VARIABLES
  \* ---- CalculateBackground: inputs held by the data structure / filter
  amPresent,            \* the selected attribute matrix exists
  udims,                \* am->getTupleDimensions()
  images,               \* the attribute arrays of the matrix, in name order
  images0,              \* history: the arrays as they were before execute
  m_lowThresh,
  m_highThresh,
  m_SubtractBackground,
  m_DivideBackground,
  ubConv,               \* what the build does for an out-of-range double -> uint8_t
  \* ---- CalculateBackground: state of the run
  pc,
  errorCondition,
  m_TotalPoints,
  background,
  counter,
  Bcalc,
  bgAttrMat,            \* tuple dimensions of the created background matrix, or <<>>
  m_BackgroundImagePtr, \* "null", or "array" once the background array is created
  m_BackgroundImage,    \* the values of the background array
  imgIdx                \* loop variable i of the image loops (1-based)

VARIABLES
  \* ---- createOverlapPairs applied to a crop map
  cropMapIn,            \* the CropMap handed to createOverlapPairs
  overlapsOut,          \* the OverlapPairs it returned
  regionPc              \* "input" before the call, "derived" after it

VARIABLES
  \* ---- FFTImageOverlapGenerator::updateRegionBounds on one overlap image
  ovRegion,             \* the requested region of m_Image: [index, size]
  baseRegion,           \* the requested region of m_BaseImg, the tile warped from
  distances,            \* distTop, distBot, distLeft, distRight of the last call
  m_Bounds,             \* the RegionBounds the generator refers to
  invalidIndex,         \* the index argument of the last call, <<>> before the first
  croppedRegion,        \* the requested region cropOverlapImages sets, <<>> before it
  boundsPc              \* "warp" while the pixels of the region are processed, then "crop"

boundsVars == <<ovRegion, baseRegion, distances, m_Bounds, invalidIndex, croppedRegion, boundsPc>>

regionVars == <<cropMapIn, overlapsOut, regionPc, boundsVars>>

VARIABLES
  \* ---- FFTConvolutionCostFunction
  montage,              \* m_Montage: [rows, cols, lay], rows = 0 before Initialize
  m_ImageDim_x,
  m_ImageDim_y,
  m_ImageGrid,          \* GridKey -> image
  m_Overlaps,           \* sequence of [pair, region]
  cfPc,                 \* the call in progress: "idle", "Initialize" or "GetValue"
  lastCall,             \* the call that returned last: "none", "Initialize" or "GetValue"
  nextTile,             \* position of the loops of lines 286-292, row-major
  tileTask,             \* GridKey -> "run", "locked" or "done", for the dispatched tasks
  gridMutex,            \* holder of the mutex of line 339, <<>> when free
  gridWrites,           \* history: GridKey -> number of executions of line 399 since line 277
  parameters,           \* the parameter vector of the GetValue call
  residual,
  nextPair,             \* position of the loop of lines 461-464
  pairTask,             \* for each dispatched pair task: "run", "locked" or "done"
  pairTmp,              \* for each pair task: the residual it read
  residMutex,           \* holder of the mutex of line 634, 0 when free
  lastResult,           \* the value the last GetValue returned
  callOutcome,          \* how the last call ended: "none", "returned" or "threw"
  derivative,           \* the DerivativeType object handed to GetDerivative
  derivative0           \* history: that object as it was before the call

derivativeVars == <<callOutcome, derivative, derivative0>>

VARIABLES
  \* ---- createOverlapImages inside the pair tasks of one GetValue call
  imagePhase,           \* per pair: 1, 2 while the first, second image is warped, 3 after
  workerPos,            \* per pair and worker: pixels of its range already processed
  workerPc,             \* per pair and worker: "scan", or "locked" inside line 176-192
  pairBounds,           \* per pair: the RegionBounds bounds of line 564
  boundsMutex           \* holder <<pair, worker>> of the mutex of line 166, <<>> when free

workerVars == <<imagePhase, workerPos, workerPc, pairBounds, boundsMutex>>

costVars == <<montage, m_ImageDim_x, m_ImageDim_y, m_ImageGrid, m_Overlaps, cfPc, lastCall,
              nextTile, tileTask, gridMutex, gridWrites, parameters, residual, nextPair, pairTask,
              pairTmp, residMutex, lastResult, derivativeVars, workerVars>>

bgInputs == <<amPresent, udims, images0, m_lowThresh, m_highThresh,
              m_SubtractBackground, m_DivideBackground, ubConv>>
bgRun == <<pc, errorCondition, m_TotalPoints, background, counter, Bcalc,
           bgAttrMat, m_BackgroundImagePtr,
           m_BackgroundImage, imgIdx>>
bgVars == <<bgInputs, images, bgRun>>

VARIABLES
  \* ---- the least-squares fit of execute applied to the field of a polynomial
  fitDims,              \* the tuple dimensions dims of the fitted field
  polynomial,           \* the coefficients c0 .. c5 the field was evaluated from
  fieldB,               \* the vector B
  designA,              \* the matrix A, row by row; <<>> before lines 334-345
  coeffP,               \* the vector p; <<>> before line 348
  fitPc                 \* "field", "design" or "solved"

VARIABLES
  \* ---- one iteration of the loop of lines 334-345
  rowIndex,             \* the loop variable i
  rowWidth,             \* dims[0]
  designRow,            \* row i of A; <<>> before the iteration
  rowPc                 \* "input", "filled", or "trapped" when the build stops on overflow

rowVars == <<rowIndex, rowWidth, designRow, rowPc>>

fitVars == <<fitDims, polynomial, fieldB, designA, coeffP, fitPc, rowVars>>

vars == <<bgVars, regionVars, costVars, fitVars>>

(***************************************************************************)
(* Bounds of the model.                                                    *)
(***************************************************************************)
MaxImages == 2
MaxWidth == 2
MaxHeight == 2
MaxTiles == 6
MaxOrigin == 2
MaxFitWidth == 3
MaxFitHeight == 3
MaxPairTasks == 2
NumWorkers == 2
TileSize == 3

\* Pixel values the source images are drawn from, and the strides of the
\* patterns that lay them out over an image.
ByteVals == <<0, 10, 200, 255>>
ImageStrides == {0, 1}
Thresholds == {<<0, 255>>, <<10, 200>>, <<0, 10>>}

(***************************************************************************)
(* Exact rational arithmetic standing for double arithmetic.               *)
(***************************************************************************)
\* the one element of a set of one element (used to take a value once and name it)
Only(S) == CHOOSE x \in S : TRUE

RECURSIVE GCD(_, _)
GCD(a, b) == IF b = 0 THEN a ELSE GCD(b, a % b)

Abs(x) == IF x < 0 THEN -x ELSE x

NaN == <<0, 0>>

PosInf == <<1, 0>>

NegInf == <<-1, 0>>
IsFinite(r) == r[2] # 0

RNorm(n, d) ==
  IF d = 0 THEN (IF n > 0 THEN PosInf ELSE IF n < 0 THEN NegInf ELSE NaN)
  ELSE LET g == GCD(Abs(n), Abs(d))
           s == IF d < 0 THEN -1 ELSE 1
       IN <<(s * n) \div g, (s * d) \div g>>

RInt(v) == <<v, 1>>

\* a + b, a - b, a * b on finite operands; NaN as soon as one operand is not finite
\* (the infinities only arise as the result of a division and are never reused).
\* (Common factors are taken out before the products are formed.)
RAdd(a, b) ==
  IF IsFinite(a) /\ IsFinite(b)
  THEN LET g == GCD(a[2], b[2]) IN RNorm(a[1] * (b[2] \div g) + b[1] * (a[2] \div g), (a[2] \div g) * b[2])
  ELSE NaN
RSub(a, b) ==
  IF IsFinite(a) /\ IsFinite(b)
  THEN LET g == GCD(a[2], b[2]) IN RNorm(a[1] * (b[2] \div g) - b[1] * (a[2] \div g), (a[2] \div g) * b[2])
  ELSE NaN
RMul(a, b) ==
  IF IsFinite(a) /\ IsFinite(b)
  THEN LET g1 == GCD(Abs(a[1]), b[2])
           g2 == GCD(Abs(b[1]), a[2])
       IN RNorm((a[1] \div g1) * (b[1] \div g2), (a[2] \div g2) * (b[2] \div g1))
  ELSE NaN
\* a / b: x/0 is +-inf, 0/0 is NaN
RDiv(a, b) ==
  IF IsFinite(a) /\ IsFinite(b)
  THEN IF b[1] = 0 THEN RNorm(a[1], 0)
       ELSE LET g1 == GCD(Abs(a[1]), Abs(b[1]))
                g2 == GCD(a[2], b[2])
            IN RNorm((a[1] \div g1) * (b[2] \div g2), (a[2] \div g2) * (b[1] \div g1))
  ELSE NaN

RLess(a, b) == a[1] * b[2] < b[1] * a[2]

\* truncation toward zero of a finite rational (the double -> integer conversion)
RTrunc(r) == IF r[1] >= 0 THEN r[1] \div r[2] ELSE -((-r[1]) \div r[2])


(***************************************************************************)
(* CalculateBackground: the pure parts of execute.                         *)
(***************************************************************************)
Points(n) == 0 .. (n - 1)

\* the tuple dimensions an attribute matrix of the model can have
TupleDims == {<<w, h, 1>> : w \in 1 .. MaxWidth, h \in 1 .. MaxHeight}

NumTuples(dims) == dims[1] * dims[2] * dims[3]

\* a test that lets through the values outside the range
InThresholdInverted(v, low, high) == v < low \/ v > high

\* the threshold test of lines 311, 384 and 411
InThreshold(v, low, high) == v >= low /\ v <= high

\* the aggregation with the upper bound of the threshold taken as exclusive
AggregateBackgroundExclusiveHigh(bg, data, low, high, n) ==
  [t \in Points(n) |-> IF data[t] >= low /\ data[t] < high THEN RAdd(bg[t], RInt(data[t])) ELSE bg[t]]

\* one pass of the inner loop of lines 308-316 over one image
AggregateBackground(bg, data, low, high, n) ==
  [t \in Points(n) |-> IF InThreshold(data[t], low, high) THEN RAdd(bg[t], RInt(data[t])) ELSE bg[t]]

AggregateCounter(cnt, data, low, high, n) ==
  [t \in Points(n) |-> IF InThreshold(data[t], low, high) THEN cnt[t] + 1 ELSE cnt[t]]

\* an average that puts 0 where nothing was counted
AverageBackgroundZeroForEmpty(bg, cnt, n) ==
  [j \in Points(n) |-> IF cnt[j] = 0 THEN RInt(0) ELSE RDiv(bg[j], RInt(cnt[j]))]

\* the average computed by an integer division
AverageBackgroundTruncated(bg, cnt, n) ==
  [j \in Points(n) |-> IF cnt[j] = 0 THEN NaN ELSE RInt(RTrunc(RDiv(bg[j], RInt(cnt[j]))))]

\* lines 323-326
AverageBackground(bg, cnt, n) == [j \in Points(n) |-> RDiv(bg[j], RInt(cnt[j]))]

\* row i of the design matrix A, lines 334-345
NumConsts2ndOrder == 6

\* xval and yval are int (lines 252-253) and so are their products
Int32Max == 2147483647

IntOverflows(a, b) == a > 0 /\ b > 0 /\ a > Int32Max \div b

\* the low 32 bits of u + v as a signed int
WrapAdd(u, v) ==
  IF u > 0 /\ v > 0 /\ u > Int32Max - v THEN ((u - Int32Max) - 1) + ((v - Int32Max) - 1)
  ELSE IF u < 0 /\ v < 0 /\ u < ((0 - Int32Max) - 1) - v THEN ((u + Int32Max) + 1) + ((v + Int32Max) + 1)
  ELSE u + v

\* the low 32 bits of a * b as a signed int, for b >= 0
RECURSIVE WrappedProduct(_, _)
WrappedProduct(a, b) ==
  IF b = 0 THEN 0
  ELSE Only({WrapAdd(WrapAdd(h, h), IF b % 2 = 1 THEN a ELSE 0) : h \in {WrappedProduct(a, b \div 2)}})

\* a * b in int arithmetic. The product that overflows is undefined: a build
\* without overflow traps leaves its low 32 bits (a build with them stops, see
\* FillDesignRow).
IntProduct(a, b) == IF IntOverflows(a, b) THEN WrappedProduct(a, b) ELSE a * b

DesignRow(i, dims) ==
  LET xval == i \div dims[1]
      yval == i % dims[1]
  IN <<1, xval, yval, IntProduct(xval, yval), IntProduct(xval, xval), IntProduct(yval, yval)>>

DesignColumn(k, dims, n) == [i \in Points(n) |-> RInt(DesignRow(i, dims)[k])]

RECURSIVE DotUpTo(_, _, _)
DotUpTo(u, v, n) == IF n = 0 THEN RInt(0) ELSE RAdd(DotUpTo(u, v, n - 1), RMul(u[n - 1], v[n - 1]))

RECURSIVE SumOver(_, _, _)
SumOver(f, lo, hi) == IF lo > hi THEN RInt(0) ELSE RAdd(f[lo], SumOver(f, lo + 1, hi))

\* v minus its components along the first m of the mutually orthogonal vectors of
\* basis
Residue(v, basis, m, n) ==
  Only({[i \in Points(n) |-> RSub(v[i], SumOver([k \in 1 .. m |-> RMul(c[k], basis[k][i])], 1, m))] :
          c \in {[k \in 1 .. m |-> RDiv(DotUpTo(v, basis[k], n), DotUpTo(basis[k], basis[k], n))]}})

IsZeroVector(v, n) == \A i \in Points(n) : v[i] = RInt(0)

\* an orthogonal basis of the span of the first k columns of A
RECURSIVE ColumnBasis(_, _, _)
ColumnBasis(k, dims, n) ==
  IF k = 0 THEN <<>>
  ELSE Only({Only({IF IsZeroVector(q, n) THEN prev ELSE Append(prev, q) :
                      q \in {Residue(DesignColumn(k, dims, n), prev, Len(prev), n)}}) :
               prev \in {ColumnBasis(k - 1, dims, n)}})

\* A * pinv(A): entry (i, j) is the sum over the orthogonal basis q of the column
\* space of q[i] * q[j] / (q . q)
RECURSIVE HatEntry(_, _, _, _, _)
HatEntry(basis, m, i, j, n) ==
  IF m = 0 THEN RInt(0)
  ELSE RAdd(HatEntry(basis, m - 1, i, j, n),
            RDiv(RMul(basis[m][i], basis[m][j]), DotUpTo(basis[m], basis[m], n)))

HatMatrix(dims, n) ==
  Only({[i \in Points(n) |-> [j \in Points(n) |-> HatEntry(basis, Len(basis), i, j, n)]] :
          basis \in {ColumnBasis(NumConsts2ndOrder, dims, n)}})

\* the matrices of every geometry and tuple count of the model, computed once
HatTable ==
  [d \in TupleDims |->
     [n \in 0 .. NumTuples(d) |-> HatMatrix(d, n)]]

\* Bcalc = A * p with p = A.colPivHouseholderQr().solve(B), lines 348 and 362: the
\* least-squares solution makes A * p the orthogonal projection of B on the column
\* space of A; one NaN in B makes every entry of p, and so of A * p, NaN.
FittedSurface(B, dims, n) ==
  IF \E i \in Points(n) : ~IsFinite(B[i]) THEN [i \in Points(n) |-> NaN]
  ELSE [i \in Points(n) |-> DotUpTo(HatTable[dims][n][i], B, n)]

\* the column of A line 348 takes as the pivot of step k: the one of the columns
\* not yet taken whose part outside the span of the pivots before it is the
\* largest, the first of them on a tie
PivotChoice(perm, basis, k, dims, n) ==
  Only({CHOOSE j \in k .. NumConsts2ndOrder :
          /\ \A l \in k .. NumConsts2ndOrder : ~RLess(norms[j], norms[l])
          /\ \A l \in k .. (j - 1) : RLess(norms[l], norms[j]) :
        norms \in {[j \in k .. NumConsts2ndOrder |->
                     Only({DotUpTo(r, r, n) :
                             r \in {Residue(DesignColumn(perm[j], dims, n), basis, Len(basis), n)}})]}})

\* the column-pivoted factorization of A: the order of the columns, and the
\* orthogonal vectors of the pivots that are not zero. The pivot is swapped into
\* position k; the first pivot that is zero ends the count of the pivots.
RECURSIVE PivotSteps(_, _, _, _, _)
PivotSteps(perm, basis, k, dims, n) ==
  IF k > NumConsts2ndOrder THEN [perm |-> perm, basis |-> basis]
  ELSE Only({Only({IF IsZeroVector(q, n) THEN [perm |-> perm, basis |-> basis]
                   ELSE Only({PivotSteps(st.perm, st.basis, k + 1, dims, n) :
                                st \in {[perm |-> [perm EXCEPT ![k] = perm[best], ![best] = perm[k]],
                                         basis |-> Append(basis, q)]}}) :
                     q \in {Residue(DesignColumn(perm[best], dims, n), basis, Len(basis), n)}}) :
               best \in {PivotChoice(perm, basis, k, dims, n)}})

ColPivHouseholderQr(dims, n) ==
  Only({[perm |-> qr.perm,
         basis |-> qr.basis,
         \* the triangular factor, row m and column j, scaled by the pivot of row m
         mu |-> [j \in 1 .. Len(qr.basis) |-> [m \in 1 .. Len(qr.basis) |->
                   RDiv(DotUpTo(DesignColumn(qr.perm[j], dims, n), qr.basis[m], n),
                        DotUpTo(qr.basis[m], qr.basis[m], n))]]] :
          qr \in {PivotSteps([k \in 1 .. NumConsts2ndOrder |-> k], <<>>, 1, dims, n)}})

\* the tuple dimensions the fit is followed for, and their factorizations
FitDims == {<<w, h, 1>> : w \in 1 .. MaxFitWidth, h \in 1 .. MaxFitHeight}

QrTable == [d \in FitDims |-> ColPivHouseholderQr(d, NumTuples(d))]

\* the triangular solve of line 348, from the last pivot to the first
RECURSIVE BackSubstitute(_, _, _, _)
BackSubstitute(x, m, y, mu) ==
  IF m = 0 THEN x
  ELSE Only({BackSubstitute(xm, m - 1, y, mu) :
               xm \in {[x EXCEPT ![m] = RSub(y[m], SumOver([j \in (m + 1) .. Len(y) |-> RMul(x[j], mu[j][m])],
                                                          m + 1, Len(y)))]}})

\* the coefficients x of the pivots laid out in the order of the columns of A
Unpermuted(x, perm) ==
  [k \in 1 .. NumConsts2ndOrder |->
     IF \E m \in 1 .. Len(x) : perm[m] = k
     THEN x[CHOOSE m \in 1 .. Len(x) : perm[m] = k]
     ELSE RInt(0)]

\* the components of B along the pivots
PivotComponents(B, basis, n) ==
  [m \in 1 .. Len(basis) |-> RDiv(DotUpTo(B, basis[m], n), DotUpTo(basis[m], basis[m], n))]

\* a solve that skips the triangular system
SolveWithoutBackSubstitution(B, dims, n) ==
  Unpermuted(PivotComponents(B, QrTable[dims].basis, n), QrTable[dims].perm)

\* p = A.colPivHouseholderQr().solve(B), line 348: the least-squares solution
\* that is zero on the columns left without a pivot
Solve(B, dims, n) ==
  Only({Unpermuted(BackSubstitute([m \in 1 .. Len(y) |-> RInt(0)], Len(y), y, QrTable[dims].mu),
                   QrTable[dims].perm) :
          y \in {PivotComponents(B, QrTable[dims].basis, n)}})

RECURSIVE SumUpTo(_, _)
SumUpTo(v, n) == IF n = 0 THEN RInt(0) ELSE RAdd(SumUpTo(v, n - 1), v[n - 1])

\* Bcalc.mean(), line 363
Mean(v, n) == RDiv(SumUpTo(v, n), RInt(n))

\* a surface left as fitted
CenteredSurfaceUncentered(v, n) == v

\* line 364
CenteredSurface(v, n) == LET average == Mean(v, n) IN [i \in Points(n) |-> RSub(v[i], average)]

\* The conversion of a double to uint8_t (the assignments of lines 386 and 413).
\* A value whose truncation fits 0..255 converts to it; for any other value the
\* conversion is undefined and the build decides: "wrap" keeps the low byte of the
\* 32-bit conversion (0 for NaN and the infinities), "saturate" takes the nearest
\* byte (0 for NaN).
ToUInt8(r, conv) ==
  IF IsFinite(r) /\ RTrunc(r) >= 0 /\ RTrunc(r) <= 255 THEN RTrunc(r)
  ELSE IF conv = "wrap" THEN (IF IsFinite(r) THEN RTrunc(r) % 256 ELSE 0)
  ELSE IF r = NaN THEN 0
  ELSE IF r[1] < 0 THEN 0 ELSE 255

\* the subtraction applied to every pixel, whatever its value
SubtractPixelsUngated(data, surf, low, high, n, conv) ==
  [t \in DOMAIN data |-> IF t < n THEN ToUInt8(RSub(RInt(data[t]), surf[t]), conv) ELSE data[t]]

\* lines 382-392: the clamps of lines 388-389 test a uint8_t and never fire
SubtractPixels(data, surf, low, high, n, conv) ==
  [t \in DOMAIN data |->
     IF t < n /\ InThreshold(data[t], low, high)
     THEN ToUInt8(RSub(RInt(data[t]), surf[t]), conv)
     ELSE data[t]]

\* lines 409-416
DividePixels(data, surf, low, high, n, conv) ==
  [t \in DOMAIN data |->
     IF t < n /\ InThreshold(data[t], low, high)
     THEN ToUInt8(IF IsFinite(surf[t]) THEN RDiv(RInt(data[t]), surf[t]) ELSE NaN, conv)
     ELSE data[t]]


(***************************************************************************)
(* CalculateBackground: the inputs of a run.                               *)
(***************************************************************************)
\* an 8-bit image laid out from ByteVals, starting at value b and advancing by s
PatternImage(b, s, n) ==
  [isUInt8 |-> TRUE,
   data |-> [t \in Points(n) |-> ByteVals[((b + t * s) % Len(ByteVals)) + 1]]]

\* an attribute array of another element type: the dynamic cast of line 180 fails
OtherTypedArray(n) == [isUInt8 |-> FALSE, data |-> [t \in Points(n) |-> 0]]

ImageChoices(n) ==
  {PatternImage(b, s, n) : b \in 0 .. (Len(ByteVals) - 1), s \in ImageStrides}
    \cup {OtherTypedArray(n)}

ImageStacks(n) == UNION {[1 .. k -> ImageChoices(n)] : k \in 0 .. MaxImages}

NoField == <<>>

InitBackground ==
  /\ amPresent \in BOOLEAN
  /\ udims \in (IF amPresent THEN TupleDims ELSE {<<1, 1, 1>>})
  /\ images \in (IF amPresent THEN ImageStacks(NumTuples(udims)) ELSE {<<>>})
  /\ images0 = images
  /\ \E th \in Thresholds : m_lowThresh = th[1] /\ m_highThresh = th[2]
  /\ m_SubtractBackground \in BOOLEAN
  /\ m_DivideBackground \in BOOLEAN
  /\ ubConv \in {"wrap", "saturate"}
  /\ pc = "start"
  /\ errorCondition = 0
  /\ m_TotalPoints = 0
  /\ background = NoField
  /\ counter = NoField
  /\ Bcalc = NoField
  /\ bgAttrMat = <<>>
  /\ m_BackgroundImagePtr = "null"
  /\ m_BackgroundImage = <<>>
  /\ imgIdx = 1

(***************************************************************************)
(* CalculateBackground::dataCheck, lines 148-228.                          *)
(***************************************************************************)
\* dataCheck without the test of lines 198-202
DataCheckErrorIgnoringBoth ==
  IF ~amPresent THEN -76000
  ELSE IF \E i \in 1 .. Len(images) : ~images[i].isUInt8 THEN -76001
  ELSE 0

\* the error condition dataCheck leaves behind, lines 150-205
DataCheckError ==
  IF ~amPresent THEN -76000
  ELSE IF m_SubtractBackground /\ m_DivideBackground THEN -76002
  ELSE IF \E i \in 1 .. Len(images) : ~images[i].isUInt8 THEN -76001
  ELSE 0

\* the vectors of lines 279-280
ZeroField(n) == [t \in Points(n) |-> RInt(0)]
ZeroCounter(n) == [t \in Points(n) |-> 0]

\* execute up to the aggregation loop, lines 249-296 (dataCheck included). With no
\* array in the matrix imagePtr is still null at line 206 and is dereferenced: the
\* run crashes, or reads some tuple count and goes on.
DataCheck ==
  /\ pc = "start"
  /\ UNCHANGED <<regionVars, costVars, fitVars>>
  /\ errorCondition' = DataCheckError
  /\ imgIdx' = 1
  /\ UNCHANGED <<bgInputs, images, Bcalc>>
  /\ IF DataCheckError < 0
     THEN /\ pc' = "error"
          /\ m_TotalPoints' = 0
          /\ UNCHANGED <<background, counter, bgAttrMat, m_BackgroundImagePtr, m_BackgroundImage>>
     ELSE IF Len(images) = 0
     THEN \/ /\ pc' = "crashed"
             /\ m_TotalPoints' = 0
             /\ UNCHANGED <<background, counter, bgAttrMat, m_BackgroundImagePtr, m_BackgroundImage>>
          \/ \E garbage \in 0 .. NumTuples(udims) :
               /\ pc' = "aggregate"
               /\ m_TotalPoints' = garbage
               /\ background' = ZeroField(garbage)
               /\ counter' = ZeroCounter(garbage)
               /\ bgAttrMat' = <<0>>
               /\ m_BackgroundImagePtr' = "array"
               /\ m_BackgroundImage' = [t \in Points(0) |-> RInt(0)]
     ELSE /\ pc' = "aggregate"
          /\ m_TotalPoints' = NumTuples(udims)
          /\ background' = ZeroField(NumTuples(udims))
          /\ counter' = ZeroCounter(NumTuples(udims))
          /\ bgAttrMat' = <<0>>
          /\ m_BackgroundImagePtr' = "array"
          /\ m_BackgroundImage' = [t \in Points(0) |-> RInt(0)]

(***************************************************************************)
(* CalculateBackground::execute, lines 298-424.                            *)
(***************************************************************************)
\* one iteration of the loop of lines 299-318
AggregateImage ==
  /\ pc = "aggregate"
  /\ UNCHANGED <<regionVars, costVars, fitVars>>
  /\ imgIdx <= Len(images)
  /\ IF images[imgIdx].isUInt8
     THEN /\ background' = AggregateBackground(background, images[imgIdx].data, m_lowThresh, m_highThresh, m_TotalPoints)
          /\ counter' = AggregateCounter(counter, images[imgIdx].data, m_lowThresh, m_highThresh, m_TotalPoints)
     ELSE UNCHANGED <<background, counter>>
  /\ imgIdx' = imgIdx + 1
  /\ UNCHANGED <<m_BackgroundImagePtr, bgInputs, images, pc, errorCondition, m_TotalPoints, Bcalc, bgAttrMat, m_BackgroundImage>>

\* the loop of lines 299-318 left before its last image
AggregateDoneEarly ==
  /\ pc = "aggregate"
  /\ UNCHANGED <<regionVars, costVars, fitVars>>
  /\ pc' = "average"
  /\ UNCHANGED <<m_BackgroundImagePtr, bgInputs, images, errorCondition, m_TotalPoints, background, counter, Bcalc, bgAttrMat,
                 m_BackgroundImage, imgIdx>>

\* the loop of lines 299-318 exits
AggregateDone ==
  /\ pc = "aggregate"
  /\ UNCHANGED <<regionVars, costVars, fitVars>>
  /\ imgIdx > Len(images)
  /\ pc' = "average"
  /\ UNCHANGED <<m_BackgroundImagePtr, bgInputs, images, errorCondition, m_TotalPoints, background, counter, Bcalc, bgAttrMat,
                 m_BackgroundImage, imgIdx>>

\* lines 323-326
Average ==
  /\ pc = "average"
  /\ UNCHANGED <<regionVars, costVars, fitVars>>
  /\ background' = AverageBackground(background, counter, m_TotalPoints)
  /\ pc' = "fit"
  /\ UNCHANGED <<m_BackgroundImagePtr, bgInputs, images, errorCondition, m_TotalPoints, counter, Bcalc, bgAttrMat, m_BackgroundImage, imgIdx>>

\* lines 331-362: the design matrix, the solve, the resize of the background
\* matrix (its array is filled with the initial value 0) and Bcalc = A * p
Fit ==
  /\ pc = "fit"
  /\ UNCHANGED <<regionVars, costVars, fitVars>>
  /\ Bcalc' = FittedSurface(background, udims, m_TotalPoints)
  /\ bgAttrMat' = udims
  /\ m_BackgroundImage' = [t \in Points(NumTuples(udims)) |-> RInt(0)]
  /\ pc' = "center"
  /\ UNCHANGED <<m_BackgroundImagePtr, bgInputs, images, errorCondition, m_TotalPoints, background, counter, imgIdx>>

\* lines 363-369
Center ==
  /\ pc = "center"
  /\ UNCHANGED <<regionVars, costVars, fitVars>>
  /\ Bcalc' = CenteredSurface(Bcalc, m_TotalPoints)
  /\ m_BackgroundImage' = [t \in DOMAIN m_BackgroundImage |->
                             IF t < m_TotalPoints THEN Bcalc'[t] ELSE m_BackgroundImage[t]]
  /\ pc' = "subtract"
  /\ imgIdx' = 1
  /\ UNCHANGED <<m_BackgroundImagePtr, bgInputs, images, errorCondition, m_TotalPoints, background, counter, bgAttrMat>>

\* the loop of lines 373-395 entered whatever the mode
SubtractImageAlways ==
  /\ pc = "subtract"
  /\ UNCHANGED <<regionVars, costVars, fitVars>>
  /\ imgIdx <= Len(images)
  /\ images' = [images EXCEPT ![imgIdx].data =
                  IF images[imgIdx].isUInt8
                  THEN SubtractPixels(@, Bcalc, m_lowThresh, m_highThresh, m_TotalPoints, ubConv)
                  ELSE @]
  /\ imgIdx' = imgIdx + 1
  /\ UNCHANGED <<m_BackgroundImagePtr, bgInputs, pc, errorCondition, m_TotalPoints, background, counter, Bcalc, bgAttrMat, m_BackgroundImage>>

\* one iteration of the loop of lines 373-395
SubtractImage ==
  /\ pc = "subtract"
  /\ UNCHANGED <<regionVars, costVars, fitVars>>
  /\ m_SubtractBackground
  /\ imgIdx <= Len(images)
  /\ images' = [images EXCEPT ![imgIdx].data =
                  IF images[imgIdx].isUInt8
                  THEN SubtractPixels(@, Bcalc, m_lowThresh, m_highThresh, m_TotalPoints, ubConv)
                  ELSE @]
  /\ imgIdx' = imgIdx + 1
  /\ UNCHANGED <<m_BackgroundImagePtr, bgInputs, pc, errorCondition, m_TotalPoints, background, counter, Bcalc, bgAttrMat, m_BackgroundImage>>

\* line 371 is false, or the loop of lines 373-395 exits
SubtractDone ==
  /\ pc = "subtract"
  /\ UNCHANGED <<regionVars, costVars, fitVars>>
  /\ ~m_SubtractBackground \/ imgIdx > Len(images)
  /\ pc' = "divide"
  /\ imgIdx' = 1
  /\ UNCHANGED <<m_BackgroundImagePtr, bgInputs, images, errorCondition, m_TotalPoints, background, counter, Bcalc, bgAttrMat, m_BackgroundImage>>

\* one iteration of the loop of lines 400-419
DivideImage ==
  /\ pc = "divide"
  /\ UNCHANGED <<regionVars, costVars, fitVars>>
  /\ m_DivideBackground
  /\ imgIdx <= Len(images)
  /\ images' = [images EXCEPT ![imgIdx].data =
                  IF images[imgIdx].isUInt8
                  THEN DividePixels(@, Bcalc, m_lowThresh, m_highThresh, m_TotalPoints, ubConv)
                  ELSE @]
  /\ imgIdx' = imgIdx + 1
  /\ UNCHANGED <<m_BackgroundImagePtr, bgInputs, pc, errorCondition, m_TotalPoints, background, counter, Bcalc, bgAttrMat, m_BackgroundImage>>

\* line 398 is false, or the loop of lines 400-419 exits; execute returns
DivideDone ==
  /\ pc = "divide"
  /\ UNCHANGED <<regionVars, costVars, fitVars>>
  /\ ~m_DivideBackground \/ imgIdx > Len(images)
  /\ pc' = "done"
  /\ UNCHANGED <<m_BackgroundImagePtr, bgInputs, images, errorCondition, m_TotalPoints, background, counter, Bcalc, bgAttrMat,
                 m_BackgroundImage, imgIdx>>

NextBackground ==
  \/ DataCheck
  \/ AggregateImage
  \/ AggregateDone
  \/ Average
  \/ Fit
  \/ Center
  \/ SubtractImage
  \/ SubtractDone
  \/ DivideImage
  \/ DivideDone

(***************************************************************************)
(* The fit of lines 331-348 on the field of a known polynomial.            *)
(***************************************************************************)
PolynomialCoefficients == {0, 1}

Polynomials == [1 .. NumConsts2ndOrder -> PolynomialCoefficients]

\* c0 + c1 x + c2 y + c3 xy + c4 x^2 + c5 y^2 at the pixel i
PolynomialAt(c, i, dims) ==
  LET row == DesignRow(i, dims)
  IN c[1] * row[1] + c[2] * row[2] + c[3] * row[3] + c[4] * row[4] + c[5] * row[5] + c[6] * row[6]

InitFit ==
  /\ fitDims \in FitDims
  /\ polynomial \in Polynomials
  /\ fieldB = [i \in Points(NumTuples(fitDims)) |-> RInt(PolynomialAt(polynomial, i, fitDims))]
  /\ designA = <<>>
  /\ coeffP = <<>>
  /\ fitPc = "field"

\* the loop of lines 334-345
FillDesignMatrix ==
  /\ fitPc = "field"
  /\ designA' = [i \in Points(NumTuples(fitDims)) |-> DesignRow(i, fitDims)]
  /\ fitPc' = "design"
  /\ UNCHANGED <<fitDims, polynomial, fieldB, coeffP, rowVars, bgVars, regionVars, costVars>>

\* line 348
SolveFit ==
  /\ fitPc = "design"
  /\ coeffP' = Solve(fieldB, fitDims, NumTuples(fitDims))
  /\ fitPc' = "solved"
  /\ UNCHANGED <<fitDims, polynomial, fieldB, designA, rowVars, bgVars, regionVars, costVars>>

NextFit ==
  \/ FillDesignMatrix
  \/ SolveFit

IdleRow ==
  /\ rowIndex = 0
  /\ rowWidth = 1
  /\ designRow = <<>>
  /\ rowPc = "idle"

IdleFit ==
  /\ fitDims = <<1, 1, 1>>
  /\ polynomial = <<>>
  /\ fieldB = <<>>
  /\ designA = <<>>
  /\ coeffP = <<>>
  /\ fitPc = "idle"
  /\ IdleRow

(***************************************************************************)
(* One iteration of the loop of lines 334-345, for any pixel of any width  *)
(* of image.                                                               *)
(***************************************************************************)
\* the widths dims[0] and the pixel indices i the iteration is followed for: those
\* of the fitted fields, and those of an image more than 46340 pixels wide or long
RowWidths == (1 .. MaxFitWidth) \cup {46341, 46342}

RowIndices == (0 .. (MaxFitWidth * MaxFitHeight - 1)) \cup {46340, 46341, 46342, 92682, 92683}

InitRow ==
  /\ rowWidth \in RowWidths
  /\ rowIndex \in RowIndices
  /\ designRow = <<>>
  /\ rowPc = "input"

RowOverflows(i, w) ==
  \/ IntOverflows(i \div w, i % w)
  \/ IntOverflows(i \div w, i \div w)
  \/ IntOverflows(i % w, i % w)

\* lines 336-344 for one i
FillDesignRow ==
  /\ rowPc = "input"
  /\ \/ /\ designRow' = DesignRow(rowIndex, <<rowWidth, 1, 1>>)
        /\ rowPc' = "filled"
     \/ /\ RowOverflows(rowIndex, rowWidth)
        /\ designRow' = designRow
        /\ rowPc' = "trapped"
  /\ UNCHANGED <<rowIndex, rowWidth, fitDims, polynomial, fieldB, designA, coeffP, fitPc,
                 bgVars, regionVars, costVars>>


(***************************************************************************)
(* Properties of CalculateBackground.                                      *)
(***************************************************************************)
NumImages == Len(images0)

\* the images whose value at pixel t lies within the threshold range
Contributors(t) ==
  {i \in 1 .. NumImages : m_lowThresh <= images0[i].data[t] /\ images0[i].data[t] <= m_highThresh}

RECURSIVE SumAt(_, _)
SumAt(S, t) == IF S = {} THEN 0 ELSE LET i == CHOOSE j \in S : TRUE IN images0[i].data[t] + SumAt(S \ {i}, t)

\* C1: when the aggregation loop has run over all N images, at every pixel t the
\* running sum is the sum of the values image_i[t] of exactly the images with
\* low <= image_i[t] <= high, and the counter is the number of those images, which
\* lies between 0 and N.
C1_AggregatedSumsAndCounts ==
  pc = "average" =>
    /\ NumImages >= 1 => m_TotalPoints = NumTuples(udims)
    /\ \A t \in Points(m_TotalPoints) :
         /\ background[t] = RInt(SumAt(Contributors(t), t))
         /\ counter[t] = Cardinality(Contributors(t))
         /\ 0 <= counter[t] /\ counter[t] <= NumImages

C1_Witness ==
  /\ pc = "average"
  /\ NumImages >= 2
  /\ \E t \in Points(m_TotalPoints) : 0 < counter[t] /\ counter[t] < NumImages
  /\ \E t \in Points(m_TotalPoints) : \E i \in 1 .. NumImages : images0[i].data[t] = m_highThresh

\* C2: with N >= 1 images and thresholds low = 0, high = 255, the averaged
\* background at every pixel is the sum of the N byte values divided by N.
C2_FullRangeAverageIsMean ==
  (/\ pc \in {"fit", "center", "subtract", "divide", "done"}
   /\ NumImages >= 1
   /\ m_lowThresh = 0 /\ m_highThresh = 255) =>
    \A t \in Points(NumTuples(udims)) : background[t] = RNorm(SumAt(1 .. NumImages, t), NumImages)

C2_Witness ==
  /\ pc = "fit"
  /\ NumImages >= 2
  /\ m_lowThresh = 0 /\ m_highThresh = 255
  /\ \E t \in Points(NumTuples(udims)) : background[t][2] > 1

\* clamp(r, 0, 255) stored as a byte
ClampToByte(r) == IF RLess(r, RInt(0)) THEN 0 ELSE IF RLess(RInt(255), r) THEN 255 ELSE RTrunc(r)

\* C3: in Subtract mode every pixel of a source image whose value v lies within
\* [low, high] ends as clamp(v - surface, 0, 255), surface being the centered
\* background at that pixel (10 - 50 stores 0, 200 - (-100) stores 255).
C3_SubtractClamps ==
  (pc = "done" /\ m_SubtractBackground) =>
    \A i \in 1 .. NumImages : \A t \in Points(m_TotalPoints) :
      (InThreshold(images0[i].data[t], m_lowThresh, m_highThresh) /\ IsFinite(Bcalc[t])) =>
        images[i].data[t] = ClampToByte(RSub(RInt(images0[i].data[t]), Bcalc[t]))

\* C4: in Subtract mode and in Divide mode a pixel whose value lies outside
\* [low, high] holds the same byte after execute as before it.
C4_OutsideThresholdUntouched ==
  (m_SubtractBackground \/ m_DivideBackground) =>
    \A i \in 1 .. NumImages : \A t \in DOMAIN images0[i].data :
      (images0[i].data[t] < m_lowThresh \/ images0[i].data[t] > m_highThresh) =>
        images[i].data[t] = images0[i].data[t]

C4_Witness ==
  /\ pc = "done"
  /\ m_SubtractBackground
  /\ \E i \in 1 .. NumImages : \E t, u \in Points(m_TotalPoints) :
       /\ images0[i].data[t] > m_highThresh
       /\ images[i].data[u] # images0[i].data[u]

NothingMutated ==
  /\ images = images0
  /\ bgAttrMat = <<>>
  /\ m_BackgroundImagePtr = "null"
  /\ m_BackgroundImage = <<>>

\* C5 as stated: with SubtractBackground and DivideBackground both true, dataCheck
\* reports -76002 and execute returns before any mutation.
C5_BothModesReport76002 ==
  (m_SubtractBackground /\ m_DivideBackground /\ pc # "start") =>
    (errorCondition = -76002 /\ pc = "error" /\ NothingMutated)

\* C5, amended: with both modes true execute returns before any mutation with a
\* negative error condition, which is -76002 when the selected attribute matrix
\* exists and -76000 when it does not.
C5_BothModesAbortBeforeMutation ==
  (m_SubtractBackground /\ m_DivideBackground /\ pc # "start") =>
    /\ errorCondition = (IF amPresent THEN -76002 ELSE -76000)
    /\ pc = "error"
    /\ NothingMutated

C5_Witness ==
  /\ m_SubtractBackground /\ m_DivideBackground
  /\ amPresent
  /\ NumImages >= 1
  /\ pc = "error"
  /\ errorCondition = -76002

\* the order of the stages of execute: a stage and the one that follows it
StageOrder ==
  {<<"start", "error">>, <<"start", "crashed">>, <<"start", "aggregate">>,
   <<"aggregate", "average">>, <<"average", "fit">>, <<"fit", "center">>,
   <<"center", "subtract">>, <<"subtract", "divide">>, <<"divide", "done">>}

\* C14: in a run that passes dataCheck the stages follow one another in the order
\* aggregate, average, fit, center, apply (Subtract, then Divide), none is
\* re-entered, the aggregation is left only when every image has been aggregated,
\* the sums and counts change only while aggregating and averaging, the surface
\* only while fitting and centering, and a source image changes only in the apply
\* stage, when all that is over.
C14_StagesInOrder ==
  [][/\ pc' # pc => <<pc, pc'>> \in StageOrder
     /\ (pc = "aggregate" /\ pc' = "average") => imgIdx > Len(images)
     /\ (pc = "subtract" /\ pc' = "divide") => (~m_SubtractBackground \/ imgIdx > Len(images))
     /\ (pc = "divide" /\ pc' = "done") => (~m_DivideBackground \/ imgIdx > Len(images))
     /\ (pc = "aggregate" /\ pc' = "aggregate") => imgIdx' = imgIdx + 1
     /\ counter' # counter => pc \in {"start", "aggregate"}
     /\ background' # background => pc \in {"start", "aggregate", "average"}
     /\ Bcalc' # Bcalc => pc \in {"fit", "center"}
     /\ images' # images => pc \in {"subtract", "divide"}]_vars

C14_Witness ==
  /\ pc = "done"
  /\ errorCondition = 0
  /\ NumImages >= 2
  /\ m_DivideBackground
  /\ images # images0

\* C15: at a pixel where no image has a value within [low, high] the averaged
\* background is not finite (0.0 / 0.0), it stays so to the end of the run, and
\* the run reports no error.
C15_ZeroCountIsNotFinite ==
  pc \in {"fit", "center", "subtract", "divide", "done"} =>
    \A t \in Points(m_TotalPoints) :
      counter[t] = 0 => (background[t] = NaN /\ ~IsFinite(background[t]) /\ errorCondition = 0)

C15_Witness ==
  /\ pc = "done"
  /\ errorCondition = 0
  /\ NumImages >= 1
  /\ \E t, u \in Points(m_TotalPoints) :
       /\ counter[t] = 0 /\ Contributors(t) = {} /\ ~IsFinite(background[t])
       /\ counter[u] > 0 /\ IsFinite(background[u])

\* the counter the loop of lines 299-318 leaves for the first k arrays of a stack
RECURSIVE CounterAfter(_, _, _, _, _)
CounterAfter(stack, k, low, high, n) ==
  IF k = 0 THEN ZeroCounter(n)
  ELSE LET before == CounterAfter(stack, k - 1, low, high, n)
       IN IF stack[k].isUInt8 THEN AggregateCounter(before, stack[k].data, low, high, n) ELSE before

\* the threshold ranges the count of a run is compared with
ComparedRanges == {<<ByteVals[a], ByteVals[b]>> : a, b \in DOMAIN ByteVals}

\* C16: for the image stack of the run and every range [low1, high1] that contains
\* the range [low2, high2] (low1 <= low2, high2 <= high1), one of the two being the
\* range of the run, the count at every pixel under [low2, high2] is at most the
\* count under [low1, high1].
C16_NarrowerRangeCountsLess ==
  pc = "average" =>
    \A r \in ComparedRanges : \A t \in Points(m_TotalPoints) :
      /\ (r[1] <= m_lowThresh /\ m_highThresh <= r[2]) =>
           counter[t] <= CounterAfter(images0, Len(images0), r[1], r[2], m_TotalPoints)[t]
      /\ (m_lowThresh <= r[1] /\ r[2] <= m_highThresh) =>
           CounterAfter(images0, Len(images0), r[1], r[2], m_TotalPoints)[t] <= counter[t]

C16_Witness ==
  /\ pc = "average"
  /\ NumImages >= 2
  /\ m_lowThresh = 10 /\ m_highThresh = 200
  /\ \E t, u \in Points(m_TotalPoints) :
       /\ counter[t] < CounterAfter(images0, Len(images0), 0, 255, m_TotalPoints)[t]
       /\ counter[u] > CounterAfter(images0, Len(images0), 10, 10, m_TotalPoints)[u]

\* the background image array holds the surface and its values sum to zero
BackgroundImageHasMeanZero ==
  /\ \A t \in Points(m_TotalPoints) : m_BackgroundImage[t] = Bcalc[t]
  /\ SumUpTo(m_BackgroundImage, NumTuples(udims)) = RInt(0)

\* C17 as stated: whatever the averaged background field, the background image
\* written by execute has mean 0 over the full pixel set.
C17_CenteredSurfaceHasMeanZero ==
  (pc \in {"subtract", "divide", "done"} /\ NumImages >= 1) => BackgroundImageHasMeanZero

\* C17, amended: when every value of the averaged background field is finite,
\* the background image written by execute has mean 0 over the full pixel set; a
\* field with a non-finite value (a pixel with count 0) gives a background image
\* of NaN.
C17_FiniteFieldCentersToMeanZero ==
  (pc \in {"subtract", "divide", "done"} /\ NumImages >= 1) =>
    IF \A t \in Points(m_TotalPoints) : IsFinite(background[t])
    THEN BackgroundImageHasMeanZero
    ELSE \A t \in Points(m_TotalPoints) : m_BackgroundImage[t] = NaN

C17_Witness ==
  /\ pc = "subtract"
  /\ NumImages >= 1
  /\ m_TotalPoints >= 4
  /\ \A t \in Points(m_TotalPoints) : IsFinite(background[t])
  /\ \E t, u \in Points(m_TotalPoints) : m_BackgroundImage[t] # m_BackgroundImage[u]
  /\ SumUpTo(m_BackgroundImage, NumTuples(udims)) = RInt(0)

\* C19: when neither SubtractBackground nor DivideBackground is selected, every
\* byte of every source image is, at every point of the run, the byte it was
\* before execute; what the run writes is the background image array.
C19_NoModeLeavesImagesUnchanged ==
  (~m_SubtractBackground /\ ~m_DivideBackground) => images = images0

C19_Witness ==
  /\ ~m_SubtractBackground /\ ~m_DivideBackground
  /\ pc = "done"
  /\ NumImages >= 2
  /\ images = images0
  /\ m_BackgroundImagePtr = "array"
  /\ \E t \in Points(m_TotalPoints) : IsFinite(m_BackgroundImage[t]) /\ m_BackgroundImage[t] # RInt(0)

\* C6: with no image array in the selected attribute matrix the run sets a
\* negative error condition instead of going on to read an image or aggregate.
C6_NoImagesIsAnError ==
  (amPresent /\ NumImages = 0 /\ pc # "start") => (errorCondition < 0 /\ pc = "error")


(***************************************************************************)
(* FFTConvolutionCostFunction: crop bounds, overlap pairs and regions.     *)
(* A GridKey is <<column, row>>. A RegionBounds is a record of four        *)
(* int64_t. An itk region is [index |-> <<x, y>>, size |-> <<w, h>>]; the  *)
(* size type is unsigned 64-bit, and the model writes a size by the signed *)
(* integer that has the same 64 bits (a negative one stands for 2^64 more).*)
(***************************************************************************)
Max(a, b) == IF a > b THEN a ELSE b
Min(a, b) == IF a < b THEN a ELSE b

\* the order of std::pair<size_t, size_t>, in which the maps are iterated
KeyLess(a, b) == a[1] < b[1] \/ (a[1] = b[1] /\ a[2] < b[2])

RECURSIVE SortedKeys(_)
SortedKeys(S) ==
  IF S = {} THEN <<>>
  ELSE LET k == CHOOSE a \in S : \A b \in S \ {a} : KeyLess(a, b)
       IN <<k>> \o SortedKeys(S \ {k})

\* precalcCropMap, lines 424-435, for one image of the grid
CropBounds(image) ==
  [leftBound |-> image.index[1],
   topBound |-> image.index[2],
   rightBound |-> image.index[1] + image.size[1],
   bottomBound |-> image.index[2] + image.size[2]]

\* the right-neighbour region taken from the top of the left tile alone
createRightRegionPairsLeftTop(left, right) ==
  [index |-> <<right.leftBound, left.topBound>>,
   size |-> <<left.rightBound - right.leftBound,
              Min(left.bottomBound, right.bottomBound) - left.topBound>>]

\* lines 511-529
createRightRegionPairs(left, right) ==
  LET topBound == Max(left.topBound, right.topBound)
      bottomBound == Min(left.bottomBound, right.bottomBound)
      width == left.rightBound - right.leftBound
      height == bottomBound - topBound
  IN [index |-> <<right.leftBound, topBound>>, size |-> <<width, height>>]

\* the bottom-neighbour region with the right-neighbour rule left unswapped
createBottomRegionPairsUnswapped(top, bottom) ==
  [index |-> <<bottom.leftBound, Max(top.topBound, bottom.topBound)>>,
   size |-> <<top.rightBound - bottom.leftBound,
              Min(top.bottomBound, bottom.bottomBound) - Max(top.topBound, bottom.topBound)>>]

\* lines 534-552
createBottomRegionPairs(top, bottom) ==
  LET leftBound == Max(top.leftBound, bottom.leftBound)
      rightBound == Min(top.rightBound, bottom.rightBound)
      width == rightBound - leftBound
      height == top.bottomBound - bottom.topBound
  IN [index |-> <<leftBound, bottom.topBound>>, size |-> <<width, height>>]

\* the loop body looking for the bottom neighbour in the row above
OverlapsOfKeyRowAbove(key, cropMap) ==
  LET rightKey == <<key[1] + 1, key[2]>>
      botKey == <<key[1], key[2] - 1>>
  IN (IF rightKey \in DOMAIN cropMap
      THEN <<[pair |-> <<key, rightKey>>,
              region |-> createRightRegionPairs(cropMap[key], cropMap[rightKey])]>>
      ELSE <<>>)
     \o (IF botKey \in DOMAIN cropMap
         THEN <<[pair |-> <<key, botKey>>,
                 region |-> createBottomRegionPairs(cropMap[key], cropMap[botKey])]>>
         ELSE <<>>)

\* the body of the loop of lines 479-503 for one key
OverlapsOfKey(key, cropMap) ==
  LET rightKey == <<key[1] + 1, key[2]>>
      botKey == <<key[1], key[2] + 1>>
      rightPairs == IF rightKey \in DOMAIN cropMap
                    THEN <<[pair |-> <<key, rightKey>>,
                            region |-> createRightRegionPairs(cropMap[key], cropMap[rightKey])]>>
                    ELSE <<>>
      botPairs == IF botKey \in DOMAIN cropMap
                  THEN <<[pair |-> <<key, botKey>>,
                          region |-> createBottomRegionPairs(cropMap[key], cropMap[botKey])]>>
                  ELSE <<>>
  IN rightPairs \o botPairs

RECURSIVE OverlapsOfKeys(_, _, _)
OverlapsOfKeys(keys, i, cropMap) ==
  IF i > Len(keys) THEN <<>>
  ELSE OverlapsOfKey(keys[i], cropMap) \o OverlapsOfKeys(keys, i + 1, cropMap)

\* lines 475-506
createOverlapPairs(cropMap) == OverlapsOfKeys(SortedKeys(DOMAIN cropMap), 1, cropMap)


(***************************************************************************)
(* createOverlapPairs on the crop maps of a family of tile layouts.        *)
(***************************************************************************)
GridKeys(rows, cols) == {<<c, r>> : c \in 0 .. (cols - 1), r \in 0 .. (rows - 1)}

\* the grids of at most MaxTiles tiles, as <<rows, columns>>
GridShapes == {sh \in (1 .. MaxTiles) \X (1 .. MaxTiles) : sh[1] * sh[2] <= MaxTiles}

\* A layout places tile (c, r) at step * (c, r), shifted by skewX per row and skewY
\* per column, and lets every other tile be wider, the others taller, by grow.
RegionLayouts ==
  [step : {TileSize - 1, TileSize, TileSize + 1}, skewX : {-1, 0, 1}, skewY : {-1, 0, 1}, grow : {0, 1, 2}]

LayoutBounds(lay, key) ==
  LET left == MaxTiles + key[1] * lay.step + key[2] * lay.skewX
      top == MaxTiles + key[2] * lay.step + key[1] * lay.skewY
  IN [leftBound |-> left,
      topBound |-> top,
      rightBound |-> left + TileSize + lay.grow * ((key[1] + key[2]) % 2),
      bottomBound |-> top + TileSize + lay.grow * ((key[1] + key[2] + 1) % 2)]

CropMaps ==
  {[key \in keys |-> LayoutBounds(lay, key)] :
     keys \in UNION {SUBSET GridKeys(sh[1], sh[2]) : sh \in GridShapes}, lay \in RegionLayouts}

IdleRegions ==
  /\ cropMapIn = <<>>
  /\ overlapsOut = <<>>
  /\ regionPc = "idle"
  /\ ovRegion = [index |-> <<0, 0>>, size |-> <<0, 0>>]
  /\ baseRegion = [index |-> <<0, 0>>, size |-> <<0, 0>>]
  /\ distances = <<>>
  /\ m_Bounds = [topBound |-> 0, bottomBound |-> 0, leftBound |-> 0, rightBound |-> 0]
  /\ invalidIndex = <<>>
  /\ croppedRegion = <<>>
  /\ boundsPc = "idle"

InitRegions ==
  /\ cropMapIn \in CropMaps
  /\ overlapsOut = <<>>
  /\ regionPc = "input"
  /\ ovRegion = [index |-> <<0, 0>>, size |-> <<0, 0>>]
  /\ baseRegion = [index |-> <<0, 0>>, size |-> <<0, 0>>]
  /\ distances = <<>>
  /\ m_Bounds = [topBound |-> 0, bottomBound |-> 0, leftBound |-> 0, rightBound |-> 0]
  /\ invalidIndex = <<>>
  /\ croppedRegion = <<>>
  /\ boundsPc = "idle"

\* m_Overlaps = createOverlapPairs(cropMap), line 301
DeriveOverlapPairs ==
  /\ regionPc = "input"
  /\ overlapsOut' = createOverlapPairs(cropMapIn)
  /\ regionPc' = "derived"
  /\ UNCHANGED <<cropMapIn, boundsVars, bgVars, costVars, fitVars>>

(***************************************************************************)
(* FFTImageOverlapGenerator::updateRegionBounds, lines 164-193, applied to *)
(* the overlap image and the bounds createOverlapImages sets up.           *)
(***************************************************************************)
\* m_Image->GetOrigin(), line 168: the overlap image is made by New(), SetRegions
\* and Allocate (lines 570-572), which leave the origin of an itk::Image at 0
ImageOrigin == <<0, 0>>

\* lines 564-568
InitialBounds(region) ==
  [topBound |-> region.index[2],
   bottomBound |-> region.index[2] + region.size[2],
   leftBound |-> region.index[1],
   rightBound |-> region.index[1] + region.size[1]]

\* the distances to the left and to the right edge taken for each other
DistancesMirrored(size, index) ==
  [distTop |-> index[2] - ImageOrigin[2],
   distBot |-> (ImageOrigin[2] + size[2]) - index[2],
   distLeft |-> (ImageOrigin[1] + size[1]) - index[1],
   distRight |-> index[1] - ImageOrigin[1]]

\* lines 171-174
Distances(size, index) ==
  [distTop |-> index[2] - ImageOrigin[2],
   distBot |-> (ImageOrigin[2] + size[2]) - index[2],
   distLeft |-> index[1] - ImageOrigin[1],
   distRight |-> (ImageOrigin[1] + size[1]) - index[1]]

\* the selected bound assigned the pixel's coordinate, without max or min
updateRegionBoundsAssigning(bounds, size, index) ==
  LET d == Distances(size, index)
  IN IF d.distTop <= d.distBot /\ d.distTop <= d.distLeft /\ d.distTop <= d.distRight
     THEN [bounds EXCEPT !.topBound = index[2]]
     ELSE IF d.distBot <= d.distTop /\ d.distBot <= d.distLeft /\ d.distBot <= d.distRight
     THEN [bounds EXCEPT !.bottomBound = index[2]]
     ELSE IF d.distLeft <= d.distTop /\ d.distLeft <= d.distBot /\ d.distLeft <= d.distRight
     THEN [bounds EXCEPT !.leftBound = index[1]]
     ELSE IF d.distRight <= d.distTop /\ d.distRight <= d.distBot /\ d.distRight <= d.distLeft
     THEN [bounds EXCEPT !.rightBound = index[1]]
     ELSE bounds

\* the tests taken with the bottom before the top
updateRegionBoundsBottomFirst(bounds, size, index) ==
  LET d == Distances(size, index)
  IN IF d.distBot <= d.distTop /\ d.distBot <= d.distLeft /\ d.distBot <= d.distRight
     THEN [bounds EXCEPT !.bottomBound = Min(@, index[2])]
     ELSE IF d.distTop <= d.distBot /\ d.distTop <= d.distLeft /\ d.distTop <= d.distRight
     THEN [bounds EXCEPT !.topBound = Max(@, index[2])]
     ELSE IF d.distLeft <= d.distTop /\ d.distLeft <= d.distBot /\ d.distLeft <= d.distRight
     THEN [bounds EXCEPT !.leftBound = Max(@, index[1])]
     ELSE IF d.distRight <= d.distTop /\ d.distRight <= d.distBot /\ d.distRight <= d.distLeft
     THEN [bounds EXCEPT !.rightBound = Min(@, index[1])]
     ELSE bounds

\* lines 176-192
updateRegionBounds(bounds, size, index) ==
  LET d == Distances(size, index)
  IN IF d.distTop <= d.distBot /\ d.distTop <= d.distLeft /\ d.distTop <= d.distRight
     THEN [bounds EXCEPT !.topBound = Max(@, index[2])]
     ELSE IF d.distBot <= d.distTop /\ d.distBot <= d.distLeft /\ d.distBot <= d.distRight
     THEN [bounds EXCEPT !.bottomBound = Min(@, index[2])]
     ELSE IF d.distLeft <= d.distTop /\ d.distLeft <= d.distBot /\ d.distLeft <= d.distRight
     THEN [bounds EXCEPT !.leftBound = Max(@, index[1])]
     ELSE IF d.distRight <= d.distTop /\ d.distRight <= d.distBot /\ d.distRight <= d.distLeft
     THEN [bounds EXCEPT !.rightBound = Min(@, index[1])]
     ELSE bounds

\* the overlap regions of the family: origins within 0 .. MaxOrigin, sides from 1
\* to the side of the largest tile
OverlapRegions ==
  {[index |-> <<x, y>>, size |-> <<w, h>>] :
     x \in 0 .. MaxOrigin, y \in 0 .. MaxOrigin, w \in 1 .. (TileSize + 1), h \in 1 .. (TileSize + 1)}

\* the pixels the range of line 576 runs over
RegionPixels(region) ==
  {<<x, y>> : x \in region.index[1] .. (region.index[1] + region.size[1] - 1),
              y \in region.index[2] .. (region.index[2] + region.size[2] - 1)}

\* the footprints a tile that holds the overlap region can have: the region is
\* the strip of the tile along its right side or along its bottom side
BaseRegions(region) ==
  {[index |-> <<region.index[1] - dx, region.index[2]>>,
    size |-> <<region.size[1] + dx, region.size[2]>>] : dx \in 0 .. Min(1, region.index[1])}
    \cup {[index |-> <<region.index[1], region.index[2] - dy>>,
           size |-> <<region.size[1], region.size[2] + dy>>] : dy \in 0 .. Min(1, region.index[2])}

\* lines 560-572: the region of an overlap pair, its bounds, the overlap image
InitBounds ==
  /\ ovRegion \in OverlapRegions
  /\ baseRegion \in BaseRegions(ovRegion)
  /\ distances = <<>>
  /\ m_Bounds = InitialBounds(ovRegion)
  /\ invalidIndex = <<>>
  /\ croppedRegion = <<>>
  /\ boundsPc = "warp"
  /\ cropMapIn = <<>>
  /\ overlapsOut = <<>>
  /\ regionPc = "idle"

\* line 254: a pixel of the range whose old position is outside the base image
UpdateRegionBounds ==
  /\ boundsPc = "warp"
  /\ \E index \in RegionPixels(ovRegion) :
       /\ invalidIndex' = index
       /\ distances' = Distances(ovRegion.size, index)
       /\ m_Bounds' = updateRegionBounds(m_Bounds, ovRegion.size, index)
  /\ UNCHANGED <<ovRegion, baseRegion, croppedRegion, boundsPc, cropMapIn, overlapsOut, regionPc, bgVars, costVars, fitVars>>

\* static_cast<size_t> of an int64_t, lines 600-601: the value low + carry * 2^64
ToSizeT(v) == [low |-> v, carry |-> IF v < 0 THEN 1 ELSE 0]

\* the region of lines 600-605
cropOverlapImages(bounds) ==
  [index |-> <<bounds.leftBound, bounds.topBound>>,
   size |-> <<ToSizeT(bounds.rightBound - bounds.leftBound), ToSizeT(bounds.bottomBound - bounds.topBound)>>]

\* lines 590-592 and 598-612: both images are warped and cropped to the bounds
WarpDone ==
  /\ boundsPc = "warp"
  /\ boundsPc' = "crop"
  /\ croppedRegion' = cropOverlapImages(m_Bounds)
  /\ UNCHANGED <<ovRegion, baseRegion, distances, m_Bounds, invalidIndex, cropMapIn, overlapsOut, regionPc,
                 bgVars, costVars, fitVars>>

NextBounds ==
  \/ UpdateRegionBounds
  \/ WarpDone

(***************************************************************************)
(* FFTConvolutionCostFunction: the montage and the tile images.            *)
(***************************************************************************)
\* A montage layout: tile (col, row) has its origin at step * (col, row) in physical
\* units, the tiles of row 0 are taller and those of column 0 wider by extra.
CostLayouts ==
  {[step |-> TileSize - 1, extra |-> 1, spacing |-> 1],
   [step |-> 2 * (TileSize - 1), extra |-> 0, spacing |-> 2]}

Montages == {[rows |-> sh[1], cols |-> sh[2], lay |-> lay] : sh \in GridShapes, lay \in CostLayouts}

NoMontage == [rows |-> 0, cols |-> 0, lay |-> [step |-> 0, extra |-> 0, spacing |-> 1]]

\* the ImageGeom of the tile at (row, column)
TileGeom(m, row, column) ==
  [dims |-> <<TileSize + (IF column = 0 THEN m.lay.extra ELSE 0),
              TileSize + (IF row = 0 THEN m.lay.extra ELSE 0)>>,
   origin |-> <<column * m.lay.step, row * m.lay.step>>,
   spacing |-> <<m.lay.spacing, m.lay.spacing>>]

\* calculateImageDim, lines 307-323
ImageDimX(m) == TileGeom(m, 0, IF m.cols > 2 THEN 1 ELSE 0).dims[1]
ImageDimY(m) == TileGeom(m, IF m.rows > 2 THEN 1 ELSE 0, 0).dims[2]

\* the pairs (pxlWidthIdx, pxlHeightIdx) FFTImageInitializer::operator() calls
\* setPixel with, lines 106-115, under the range of line 393: rows offsetY up to
\* tileHeight, columns offsetX up to tileWidth
InitializerRange(offsetX, offsetY, tileWidth, tileHeight) ==
  {<<x, y>> : x \in offsetX .. (tileWidth - 1), y \in offsetY .. (tileHeight - 1)}

\* FFTImageInitializer::setPixel, lines 92-100: the pixel written and the position
\* in the rows of geomWidth values of the data array it is read from
setPixel(imageIndex, pxlWidthIdx, pxlHeightIdx) ==
  [idx |-> <<pxlWidthIdx + imageIndex[1], pxlHeightIdx + imageIndex[2]>>,
   from |-> <<pxlWidthIdx, pxlHeightIdx>>]

\* the pixels of the image once the range is processed: for each pixel written,
\* the positions of the data array written to it (Allocate does not fill the
\* image, a pixel that is not written holds nothing defined)
InitializedPixels(imageIndex, range) ==
  [px \in {setPixel(imageIndex, r[1], r[2]).idx : r \in range} |->
     {setPixel(imageIndex, r[1], r[2]).from : r \in {q \in range : setPixel(imageIndex, q[1], q[2]).idx = px}}]

\* the image initializeDataContainer builds, lines 341-395
TileImage(m, row, column, dimX, dimY) ==
  LET geom == TileGeom(m, row, column)
      geomWidth == geom.dims[1]
      geomHeight == geom.dims[2]
      xOrigin0 == geom.origin[1] \div geom.spacing[1]
      yOrigin0 == geom.origin[2] \div geom.spacing[2]
      tileHeight == Min(geomHeight, dimY)
      tileWidth == Min(geomWidth, dimX)
      firstRow == row = 0 /\ m.rows > 2
      firstCol == column = 0 /\ m.cols > 2
      yOrigin == IF firstRow THEN (yOrigin0 + geomHeight) - tileHeight ELSE yOrigin0
      xOrigin == IF firstCol THEN (xOrigin0 + geomWidth) - tileWidth ELSE xOrigin0
      offsetY == IF firstRow THEN geomHeight - tileHeight ELSE 0
      offsetX == IF firstCol THEN geomWidth - tileWidth ELSE 0
  IN [index |-> <<xOrigin, yOrigin>>,
      size |-> <<tileWidth, tileHeight>>,
      pixels |-> InitializedPixels(<<xOrigin, yOrigin>>, InitializerRange(offsetX, offsetY, tileWidth, tileHeight))]

\* the CropMap of lines 295-299
CropMapOf(grid) == [key \in DOMAIN grid |-> CropBounds(grid[key])]

(***************************************************************************)
(* FFTConvolutionCostFunction: the score of one overlap pair.              *)
(***************************************************************************)
ConvValues == <<-3, 0, 5, 12>>
ParameterChoices == 0 .. 3

\* The buffer of the image the FFT convolution filter puts out for the i-th overlap
\* pair under the parameters p (lines 638-649). The filter is ITK's; the model
\* takes its output from a fixed table of small buffers.
ConvolutionBuffer(i, p) ==
  <<ConvValues[((p + i) % Len(ConvValues)) + 1], ConvValues[((p + 2 * i) % Len(ConvValues)) + 1]>>

\* lines 616-627; the initial maximum lies below every value of a buffer
RECURSIVE maxFromArray(_, _)
maxFromArray(buf, count) ==
  IF count = 1 THEN buf[1]
  ELSE LET max == maxFromArray(buf, count - 1)
       IN IF buf[count] > max THEN buf[count] ELSE max

\* maxValue of line 650 for the i-th overlap pair
PairMaxValue(i, p) == maxFromArray(ConvolutionBuffer(i, p), Len(ConvolutionBuffer(i, p)))


(***************************************************************************)
(* FFTConvolutionCostFunction::Initialize, lines 272-302, with the tasks   *)
(* of initializeDataContainer, lines 337-400.                              *)
(***************************************************************************)
IdleCost ==
  /\ montage = NoMontage
  /\ m_ImageDim_x = 0
  /\ m_ImageDim_y = 0
  /\ m_ImageGrid = <<>>
  /\ m_Overlaps = <<>>
  /\ cfPc = "idle"
  /\ lastCall = "none"
  /\ nextTile = 0
  /\ tileTask = <<>>
  /\ gridMutex = <<>>
  /\ gridWrites = <<>>
  /\ parameters = 0
  /\ residual = 0
  /\ nextPair = 1
  /\ pairTask = <<>>
  /\ pairTmp = <<>>
  /\ residMutex = 0
  /\ lastResult = 0
  /\ callOutcome = "none"
  /\ derivative = 0
  /\ derivative0 = 0
  /\ imagePhase = <<>>
  /\ workerPos = <<>>
  /\ workerPc = <<>>
  /\ pairBounds = <<>>
  /\ boundsMutex = <<>>

InitCost == IdleCost

getValueLocals == <<parameters, residual, nextPair, pairTask, pairTmp, residMutex>>
getValueVars == <<getValueLocals, lastResult>>
initializeVars == <<montage, m_ImageDim_x, m_ImageDim_y, m_ImageGrid, nextTile, tileTask, gridMutex,
                    gridWrites>>

NumTiles == montage.rows * montage.cols

\* the grid of the earlier call left in place
GridKept(grid) == grid

\* m_ImageGrid.clear() of line 277
GridCleared(grid) == <<>>

\* lines 274-285; the caller holds no result while a call is in progress
InitializeBegin ==
  /\ cfPc = "idle"
  /\ \E m \in Montages :
       /\ montage' = m
       /\ m_ImageDim_x' = ImageDimX(m)
       /\ m_ImageDim_y' = ImageDimY(m)
  /\ m_ImageGrid' = GridCleared(m_ImageGrid)
  /\ gridWrites' = <<>>
  /\ cfPc' = "Initialize"
  /\ lastCall' = "none"
  /\ lastResult' = 0
  /\ nextTile' = 0
  /\ tileTask' = <<>>
  /\ callOutcome' = "none"
  /\ derivative' = 0
  /\ derivative0' = 0
  /\ UNCHANGED <<workerVars, m_Overlaps, gridMutex, getValueLocals, bgVars, regionVars, fitVars>>

\* one taskAlg.execute of line 290
DispatchTile ==
  /\ cfPc = "Initialize"
  /\ nextTile < NumTiles
  /\ LET key == <<nextTile % montage.cols, nextTile \div montage.cols>>
     IN tileTask' = [k \in DOMAIN tileTask \cup {key} |-> IF k = key THEN "run" ELSE tileTask[k]]
  /\ nextTile' = nextTile + 1
  /\ UNCHANGED <<workerVars, gridWrites, montage, m_ImageDim_x, m_ImageDim_y, m_ImageGrid, m_Overlaps, cfPc, lastCall,
                 gridMutex, getValueVars, derivativeVars, bgVars, regionVars, fitVars>>

\* the insertion without the lock
GridMutexIgnored == TRUE

\* the scoped lock of line 398 can be taken
GridMutexFree == gridMutex = <<>>

\* a task has built its image and takes the lock, lines 341-398
TileLock(key) ==
  /\ tileTask[key] = "run"
  /\ GridMutexFree
  /\ gridMutex' = key
  /\ tileTask' = [tileTask EXCEPT ![key] = "locked"]
  /\ UNCHANGED <<workerVars, gridWrites, montage, m_ImageDim_x, m_ImageDim_y, m_ImageGrid, m_Overlaps, cfPc, lastCall,
                 nextTile, getValueVars, derivativeVars, bgVars, regionVars, fitVars>>

\* line 399 and the release of the lock at the end of the scope
TileInsert(key) ==
  /\ tileTask[key] = "locked"
  /\ LET image == TileImage(montage, key[2], key[1], m_ImageDim_x, m_ImageDim_y)
     IN m_ImageGrid' = [k \in DOMAIN m_ImageGrid \cup {key} |-> IF k = key THEN image ELSE m_ImageGrid[k]]
  /\ gridWrites' = [k \in DOMAIN gridWrites \cup {key} |->
                      IF k = key THEN (IF key \in DOMAIN gridWrites THEN gridWrites[key] + 1 ELSE 1)
                      ELSE gridWrites[k]]
  /\ gridMutex' = IF gridMutex = key THEN <<>> ELSE gridMutex
  /\ tileTask' = [tileTask EXCEPT ![key] = "done"]
  /\ UNCHANGED <<workerVars, montage, m_ImageDim_x, m_ImageDim_y, m_Overlaps, cfPc, lastCall, nextTile,
                 getValueVars, derivativeVars, bgVars, regionVars, fitVars>>

TileStep == \E key \in DOMAIN tileTask : TileLock(key) \/ TileInsert(key)

\* a caller that goes on without waiting
TilesJoinedWithoutWait == TRUE

\* taskAlg.wait() of line 293 can return: every dispatched task has finished
TilesJoined == \A key \in DOMAIN tileTask : tileTask[key] = "done"

\* taskAlg.wait() of line 293 returns; lines 295-301; the task algorithm goes out
\* of scope
InitializeJoin ==
  /\ cfPc = "Initialize"
  /\ nextTile = NumTiles
  /\ TilesJoined
  /\ m_Overlaps' = createOverlapPairs(CropMapOf(m_ImageGrid))
  /\ cfPc' = "idle"
  /\ lastCall' = "Initialize"
  /\ nextTile' = 0
  /\ tileTask' = <<>>
  /\ callOutcome' = "returned"
  /\ UNCHANGED <<workerVars, gridWrites, montage, m_ImageDim_x, m_ImageDim_y, m_ImageGrid, gridMutex, getValueVars,
                 derivative, derivative0, bgVars, regionVars, fitVars>>

(***************************************************************************)
(* FFTConvolutionCostFunction::GetValue, lines 456-470, with the tasks of  *)
(* findFFTConvolutionAndMaxValue, lines 632-654.                           *)
(***************************************************************************)
\* lines 458-459; the caller holds no result while a call is in progress
GetValueBegin ==
  /\ cfPc = "idle"
  /\ parameters' \in ParameterChoices
  /\ residual' = 0
  /\ nextPair' = 1
  /\ pairTask' = <<>>
  /\ pairTmp' = <<>>
  /\ cfPc' = "GetValue"
  /\ lastCall' = "none"
  /\ lastResult' = 0
  /\ callOutcome' = "none"
  /\ derivative' = 0
  /\ derivative0' = 0
  /\ UNCHANGED <<workerVars, initializeVars, m_Overlaps, residMutex, bgVars, regionVars, fitVars>>

\* one taskAlg.execute of line 463
DispatchPair ==
  /\ cfPc = "GetValue"
  /\ nextPair <= Len(m_Overlaps)
  /\ pairTask' = Append(pairTask, "run")
  /\ pairTmp' = Append(pairTmp, 0)
  /\ nextPair' = nextPair + 1
  /\ UNCHANGED <<workerVars, initializeVars, m_Overlaps, cfPc, lastCall, parameters, residual, residMutex,
                 lastResult, derivativeVars, bgVars, regionVars, fitVars>>

\* line 636 has returned; where the warp of the images is not followed pixel by
\* pixel, createOverlapImages is part of the step that takes the lock of line 652
OverlapImagesDone(i) == i \in DOMAIN imagePhase => imagePhase[i] = 3

\* the accumulation without the lock
ResidualMutexIgnored == TRUE

\* the scoped lock of line 652 can be taken
ResidualMutexFree == residMutex = 0

\* a task has its maxValue, takes the lock and reads residual, lines 636-653
PairLock(i) ==
  /\ pairTask[i] = "run"
  /\ OverlapImagesDone(i)
  /\ ResidualMutexFree
  /\ residMutex' = i
  /\ pairTmp' = [pairTmp EXCEPT ![i] = residual]
  /\ pairTask' = [pairTask EXCEPT ![i] = "locked"]
  /\ UNCHANGED <<workerVars, initializeVars, m_Overlaps, cfPc, lastCall, parameters, residual, nextPair,
                 lastResult, derivativeVars, bgVars, regionVars, fitVars>>

\* it stores residual + maxValue, line 653, and releases the lock
PairAdd(i) ==
  /\ pairTask[i] = "locked"
  /\ residual' = pairTmp[i] + PairMaxValue(i, parameters)
  /\ residMutex' = IF residMutex = i THEN 0 ELSE residMutex
  /\ pairTask' = [pairTask EXCEPT ![i] = "done"]
  /\ UNCHANGED <<workerVars, initializeVars, m_Overlaps, cfPc, lastCall, parameters, nextPair, pairTmp,
                 lastResult, derivativeVars, bgVars, regionVars, fitVars>>

PairStep == \E i \in DOMAIN pairTask : PairLock(i) \/ PairAdd(i)

\* taskAlg.wait() of line 465 can return: every dispatched task has finished
PairsJoined == \A i \in DOMAIN pairTask : pairTask[i] = "done"

\* taskAlg.wait() of line 465 returns; lines 468-469; the locals go out of scope
GetValueReturn ==
  /\ cfPc = "GetValue"
  /\ nextPair > Len(m_Overlaps)
  /\ PairsJoined
  /\ lastResult' = residual * residual
  /\ cfPc' = "idle"
  /\ lastCall' = "GetValue"
  /\ residual' = 0
  /\ nextPair' = 1
  /\ pairTask' = <<>>
  /\ pairTmp' = <<>>
  /\ callOutcome' = "returned"
  /\ UNCHANGED <<workerVars, initializeVars, m_Overlaps, parameters, residMutex, derivative, derivative0,
                 bgVars, regionVars, fitVars>>

(***************************************************************************)
(* FFTConvolutionCostFunction::GetDerivative, lines 440-443.               *)
(***************************************************************************)
DerivativeChoices == {0, 9}

\* a body that returned normally
GetDerivativeReturning(p, d) == [outcome |-> "returned", derivative |-> d]

\* line 442: the body throws, having read neither argument and written nothing
GetDerivativeBody(p, d) == [outcome |-> "threw", derivative |-> d]

\* a call of GetDerivative on the idle cost function, initialized or not
GetDerivative ==
  /\ cfPc = "idle"
  /\ \E p \in ParameterChoices, d \in DerivativeChoices :
       /\ derivative0' = d
       /\ derivative' = GetDerivativeBody(p, d).derivative
       /\ callOutcome' = GetDerivativeBody(p, d).outcome
  /\ lastCall' = "GetDerivative"
  /\ lastResult' = 0
  /\ UNCHANGED <<workerVars, initializeVars, m_Overlaps, cfPc, getValueLocals, bgVars, regionVars, fitVars>>

NextCost ==
  \/ GetDerivative
  \/ InitializeBegin
  \/ DispatchTile
  \/ TileStep
  \/ InitializeJoin
  \/ GetValueBegin
  \/ DispatchPair
  \/ PairStep
  \/ GetValueReturn

(***************************************************************************)
(* One GetValue call followed pixel by pixel: createOverlapImages, lines   *)
(* 557-593, with the pixel-range workers of the two dataAlg.execute calls  *)
(* (FFTImageOverlapGenerator::operator(), lines 239-259).                  *)
(***************************************************************************)
Workers == 1 .. NumWorkers

\* the pixels of a region in row-major order
PixelSeq(region) ==
  [k \in 1 .. (region.size[1] * region.size[2]) |->
     <<region.index[1] + ((k - 1) % region.size[1]), region.index[2] + ((k - 1) \div region.size[1])>>]

\* the sub-range of the range of lines 576 and 587 a worker runs over: the rows of
\* the region are dealt out to the workers in turn
WorkerPixels(region, w) ==
  SelectSeq(PixelSeq(region), LAMBDA px : ((px[2] - region.index[2]) % NumWorkers) = w - 1)

\* Line 248 fails for the pixel: its old position under the parameters p lies
\* outside the base image of the given phase. The dewarp transform is
\* FFTDewarpHelper's; the model takes its verdict from a fixed pattern, which
\* finds no pixel invalid under the parameters 0.
InvalidPixel(i, phase, px, p) == p > 0 /\ (px[1] + 2 * px[2] + i + phase + p) % 3 = 0

\* the grid and the overlap pairs Initialize leaves for a montage
GridOf(m) ==
  [key \in GridKeys(m.rows, m.cols) |-> TileImage(m, key[2], key[1], ImageDimX(m), ImageDimY(m))]

OverlapsOf(m) == createOverlapPairs(CropMapOf(GridOf(m)))

EvaluatedMontages == {m \in Montages : Len(OverlapsOf(m)) <= MaxPairTasks}

\* GetValue has been entered (lines 458-459) on a cost function initialized for a
\* montage
InitEvaluate ==
  /\ montage \in EvaluatedMontages
  /\ m_ImageDim_x = ImageDimX(montage)
  /\ m_ImageDim_y = ImageDimY(montage)
  /\ m_ImageGrid = GridOf(montage)
  /\ m_Overlaps = OverlapsOf(montage)
  /\ cfPc = "GetValue"
  /\ lastCall = "none"
  /\ nextTile = 0
  /\ tileTask = <<>>
  /\ gridMutex = <<>>
  /\ gridWrites = [key \in GridKeys(montage.rows, montage.cols) |-> 1]
  /\ parameters \in ParameterChoices
  /\ residual = 0
  /\ nextPair = 1
  /\ pairTask = <<>>
  /\ pairTmp = <<>>
  /\ residMutex = 0
  /\ lastResult = 0
  /\ callOutcome = "none"
  /\ derivative = 0
  /\ derivative0 = 0
  /\ imagePhase = [i \in 1 .. Len(m_Overlaps) |-> 1]
  /\ workerPos = [i \in 1 .. Len(m_Overlaps) |-> [w \in Workers |-> 0]]
  /\ workerPc = [i \in 1 .. Len(m_Overlaps) |-> [w \in Workers |-> "scan"]]
  /\ pairBounds = [i \in 1 .. Len(m_Overlaps) |-> InitialBounds(m_Overlaps[i].region)]
  /\ boundsMutex = <<>>

evaluateFrame == <<initializeVars, m_Overlaps, cfPc, lastCall, getValueVars, derivativeVars,
                   bgVars, regionVars, fitVars>>

\* the worker is inside its range with a pixel to process
WorkerAtPixel(i, w) ==
  /\ i \in DOMAIN pairTask
  /\ pairTask[i] = "run"
  /\ imagePhase[i] \in {1, 2}
  /\ workerPc[i][w] = "scan"
  /\ workerPos[i][w] < Len(WorkerPixels(m_Overlaps[i].region, w))

NextPixel(i, w) == WorkerPixels(m_Overlaps[i].region, w)[workerPos[i][w] + 1]

\* lines 245-251 and 256: the old position is inside the base image
WorkerCopy(i, w) ==
  /\ WorkerAtPixel(i, w)
  /\ ~InvalidPixel(i, imagePhase[i], NextPixel(i, w), parameters)
  /\ workerPos' = [workerPos EXCEPT ![i][w] = @ + 1]
  /\ UNCHANGED <<imagePhase, workerPc, pairBounds, boundsMutex, evaluateFrame>>

\* a lock that is never given back
BoundsMutexKept(holder) == holder

\* the scoped lock of line 176 is released at line 193
BoundsMutexReleased(holder) == <<>>

\* lines 254 and 168-176: the old position is outside, the distances are taken and
\* the lock of line 176 is acquired
WorkerLock(i, w) ==
  /\ WorkerAtPixel(i, w)
  /\ InvalidPixel(i, imagePhase[i], NextPixel(i, w), parameters)
  /\ boundsMutex = <<>>
  /\ boundsMutex' = <<i, w>>
  /\ workerPc' = [workerPc EXCEPT ![i][w] = "locked"]
  /\ UNCHANGED <<imagePhase, workerPos, pairBounds, evaluateFrame>>

\* lines 177-193 and 256
WorkerUpdate(i, w) ==
  /\ i \in DOMAIN pairTask
  /\ workerPc[i][w] = "locked"
  /\ pairBounds' = [pairBounds EXCEPT ![i] =
                      updateRegionBounds(@, m_Overlaps[i].region.size, NextPixel(i, w))]
  /\ boundsMutex' = BoundsMutexReleased(boundsMutex)
  /\ workerPc' = [workerPc EXCEPT ![i][w] = "scan"]
  /\ workerPos' = [workerPos EXCEPT ![i][w] = @ + 1]
  /\ UNCHANGED <<imagePhase, evaluateFrame>>

WorkerStep == \E i \in DOMAIN pairTask : \E w \in Workers : WorkerCopy(i, w) \/ WorkerLock(i, w) \/ WorkerUpdate(i, w)

\* dataAlg.execute of line 577 or of line 588 returns: every worker has finished
\* its range
ImageWarped ==
  \E i \in DOMAIN pairTask :
    /\ pairTask[i] = "run"
    /\ imagePhase[i] \in {1, 2}
    /\ \A w \in Workers :
         workerPc[i][w] = "scan" /\ workerPos[i][w] = Len(WorkerPixels(m_Overlaps[i].region, w))
    /\ imagePhase' = [imagePhase EXCEPT ![i] = @ + 1]
    /\ workerPos' = [workerPos EXCEPT ![i] = [w \in Workers |-> IF imagePhase[i] = 1 THEN 0 ELSE @[w]]]
    /\ UNCHANGED <<workerPc, pairBounds, boundsMutex, evaluateFrame>>

NextEvaluate ==
  \/ DispatchPair
  \/ WorkerStep
  \/ ImageWarped
  \/ PairStep
  \/ GetValueReturn

(***************************************************************************)
(* The specifications.                                                     *)
(***************************************************************************)
IdleBackground ==
  /\ amPresent = FALSE
  /\ udims = <<1, 1, 1>>
  /\ images = <<>>
  /\ images0 = <<>>
  /\ m_lowThresh = 0
  /\ m_highThresh = 255
  /\ m_SubtractBackground = FALSE
  /\ m_DivideBackground = FALSE
  /\ ubConv = "wrap"
  /\ pc = "idle"
  /\ errorCondition = 0
  /\ m_TotalPoints = 0
  /\ background = <<>>
  /\ counter = <<>>
  /\ Bcalc = <<>>
  /\ bgAttrMat = <<>>
  /\ m_BackgroundImagePtr = "null"
  /\ m_BackgroundImage = <<>>
  /\ imgIdx = 1

\* one run of CalculateBackground::execute
InitSpecBackground == InitBackground /\ IdleRegions /\ IdleCost /\ IdleFit

SpecBackground == InitSpecBackground /\ [][NextBackground]_vars

\* createOverlapPairs on a crop map
InitSpecRegions == InitRegions /\ IdleBackground /\ IdleCost /\ IdleFit

SpecRegions == InitSpecRegions /\ [][DeriveOverlapPairs]_vars

\* calls of Initialize and GetValue on one cost function
InitSpecCost == InitCost /\ IdleBackground /\ IdleRegions /\ IdleFit

SpecCost == InitSpecCost /\ [][NextCost]_vars

\* the calls of updateRegionBounds during the warp of one overlap image
InitSpecBounds == InitBounds /\ IdleBackground /\ IdleCost /\ IdleFit

SpecBounds == InitSpecBounds /\ [][NextBounds]_vars

\* one GetValue call with its pair tasks and their pixel-range workers; a thread
\* that can run is eventually run
InitSpecEvaluate == InitEvaluate /\ IdleBackground /\ IdleRegions /\ IdleFit

SpecEvaluate == InitSpecEvaluate /\ [][NextEvaluate]_vars /\ WF_vars(NextEvaluate)

\* the fit of CalculateBackground::execute on the field of a polynomial
InitSpecFit == InitFit /\ IdleRow /\ IdleBackground /\ IdleRegions /\ IdleCost

SpecFit == InitSpecFit /\ [][NextFit]_vars

\* one row of the design matrix of CalculateBackground::execute
InitSpecDesignRow ==
  /\ InitRow
  /\ fitDims = <<1, 1, 1>>
  /\ polynomial = <<>>
  /\ fieldB = <<>>
  /\ designA = <<>>
  /\ coeffP = <<>>
  /\ fitPc = "idle"
  /\ IdleBackground
  /\ IdleRegions
  /\ IdleCost

SpecDesignRow == InitSpecDesignRow /\ [][FillDesignRow]_vars


(***************************************************************************)
(* Properties of GetValue.                                                 *)
(***************************************************************************)
Maximum(buf) == CHOOSE v \in {buf[k] : k \in DOMAIN buf} : \A k \in DOMAIN buf : buf[k] <= v

RECURSIVE SumOfMaxima(_)
SumOfMaxima(S) ==
  IF S = {} THEN 0
  ELSE LET i == CHOOSE j \in S : TRUE
       IN Maximum(ConvolutionBuffer(i, parameters)) + SumOfMaxima(S \ {i})

\* C7: whatever the interleaving of the pair tasks, GetValue returns the square of
\* the sum of the maxima of all overlap pairs of m_Overlaps; while it runs, the
\* residual outside a critical section is the sum of the maxima of exactly the
\* tasks that have finished, so none is lost and none is added twice.
C7_ResidualIsSumOfMaxima ==
  /\ (cfPc = "idle" /\ lastCall = "GetValue") =>
       LET total == SumOfMaxima(1 .. Len(m_Overlaps)) IN lastResult = total * total
  /\ (cfPc = "GetValue" /\ residMutex = 0) =>
       residual = SumOfMaxima({i \in DOMAIN pairTask : pairTask[i] = "done"})

C7_Witness ==
  /\ cfPc = "GetValue"
  /\ Len(m_Overlaps) >= 4
  /\ residual # 0
  /\ \E i, j \in DOMAIN pairTask : i < j /\ pairTask[i] = "run" /\ pairTask[j] = "done"

\* C11: every call of GetDerivative, whatever the parameters and whether or not
\* the cost function has been initialized, ends by throwing, leaves the derivative
\* object as it was, and changes neither the image grid nor the overlap list.
C11_GetDerivativeAlwaysFails ==
  /\ [](lastCall = "GetDerivative" => (callOutcome = "threw" /\ derivative = derivative0))
  /\ [][lastCall' = "GetDerivative" =>
         (m_ImageGrid' = m_ImageGrid /\ m_Overlaps' = m_Overlaps /\ montage' = montage)]_vars

C11_Witness ==
  /\ lastCall = "GetDerivative"
  /\ callOutcome = "threw"
  /\ derivative # 0
  /\ Len(m_Overlaps) >= 1

\* the tasks that are inside the critical section of lines 398-399
TilesInserting == {key \in DOMAIN tileTask : tileTask[key] = "locked"}

\* C12: under every interleaving of the materialization tasks, when Initialize
\* has returned for a montage of R rows and C columns the image grid holds
\* exactly the R*C keys (col, row), 0 <= col < C, 0 <= row < R, every key has been
\* written exactly once, and at no time are two tasks inserting at once.
C12_GridWrittenOncePerKey ==
  /\ (cfPc = "idle" /\ lastCall = "Initialize") =>
       /\ DOMAIN m_ImageGrid = GridKeys(montage.rows, montage.cols)
       /\ Cardinality(DOMAIN m_ImageGrid) = montage.rows * montage.cols
       /\ DOMAIN gridWrites = DOMAIN m_ImageGrid
       /\ \A key \in DOMAIN gridWrites : gridWrites[key] = 1
  /\ \A key \in DOMAIN gridWrites : gridWrites[key] <= 1
  /\ Cardinality(TilesInserting) <= 1

C12_Witness ==
  /\ cfPc = "idle"
  /\ lastCall = "Initialize"
  /\ montage.rows >= 2
  /\ montage.cols >= 3
  /\ Cardinality(DOMAIN m_ImageGrid) = 6

\* C13: the step of Initialize that derives the crop map and the overlap pairs
\* is taken only when every one of the R*C materialization tasks has finished, so
\* the pairs are those of the full grid; the step of GetValue that squares and
\* returns the residual is taken only when every overlap-pair task has added its
\* maximum, so the residual squared is the full sum.
C13_JoinBeforeProceeding ==
  [][/\ lastCall' = "Initialize" =>
         /\ \A key \in GridKeys(montage.rows, montage.cols) :
              key \in DOMAIN tileTask /\ tileTask[key] = "done" /\ key \in DOMAIN m_ImageGrid
         /\ m_ImageGrid' = m_ImageGrid
         /\ m_Overlaps' = createOverlapPairs(CropMapOf(m_ImageGrid))
     /\ m_Overlaps' # m_Overlaps => lastCall' = "Initialize"
     /\ lastCall' = "GetValue" =>
         /\ \A i \in 1 .. Len(m_Overlaps) : i \in DOMAIN pairTask /\ pairTask[i] = "done"
         /\ residual = SumOfMaxima(1 .. Len(m_Overlaps))
         /\ lastResult' = residual * residual
     /\ lastResult' # lastResult => (lastCall' = "GetValue" \/ lastResult' = 0)]_vars

C13_Witness ==
  /\ cfPc = "idle"
  /\ lastCall = "GetValue"
  /\ callOutcome = "returned"
  /\ Cardinality(DOMAIN m_ImageGrid) >= 4
  /\ Len(m_Overlaps) >= 4
  /\ lastResult > 0

\* the worker has an invalid pixel next and needs the lock of line 176
WaitsForBoundsMutex(i, w) ==
  /\ WorkerAtPixel(i, w)
  /\ InvalidPixel(i, imagePhase[i], NextPixel(i, w), parameters)

\* the task has its maximum and needs the lock of line 652
WaitsForResidualMutex(i) == pairTask[i] = "run" /\ imagePhase[i] = 3

\* C20: a GetValue call that has been entered returns, whatever the number of
\* overlap pairs and the scheduling of the pair tasks and of their pixel-range
\* workers; and at no time does a task that holds the accumulator mutex hold or
\* wait for the region-bounds mutex, or a task that holds the region-bounds mutex
\* hold or wait for the accumulator mutex.
C20_GetValueCompletes ==
  /\ (cfPc = "GetValue") ~> (cfPc = "idle" /\ lastCall = "GetValue" /\ callOutcome = "returned")
  /\ [](\A i \in DOMAIN pairTask :
          /\ residMutex = i =>
               /\ imagePhase[i] = 3
               /\ \A w \in Workers : boundsMutex # <<i, w>> /\ ~WaitsForBoundsMutex(i, w)
          /\ (\E w \in Workers : boundsMutex = <<i, w>>) =>
               /\ residMutex # i
               /\ ~WaitsForResidualMutex(i))

C20_Witness ==
  /\ cfPc = "GetValue"
  /\ Len(m_Overlaps) >= 2
  /\ residMutex = 1
  /\ boundsMutex # <<>>
  /\ boundsMutex[1] = 2
  /\ \E w \in Workers : boundsMutex # <<2, w>> /\ WaitsForBoundsMutex(2, w)

\* C27: every overlap pair createOverlapPairs returns has a region whose width
\* and height, as computed signed by createRightRegionPairs and
\* createBottomRegionPairs, are strictly positive.
C27_OverlapRegionsNotEmpty ==
  regionPc = "derived" =>
    \A i \in DOMAIN overlapsOut :
      overlapsOut[i].region.size[1] > 0 /\ overlapsOut[i].region.size[2] > 0

(***************************************************************************)
(* Properties of the least-squares fit.                                    *)
(***************************************************************************)
CoefficientsRecovered == \A k \in 1 .. NumConsts2ndOrder : coeffP[k] = RInt(polynomial[k])

\* A * p at the pixel i
SurfaceAt(i) ==
  LET terms == [k \in 1 .. NumConsts2ndOrder |-> RMul(RInt(designA[i][k]), coeffP[k])]
  IN SumOver(terms, 1, NumConsts2ndOrder)

\* the field has three columns and three rows of pixels at least: no column of
\* the design matrix is a combination of the others
ThreeByThree(dims) == dims[1] >= 3 /\ NumTuples(dims) \div dims[1] >= 3

IsProduct(v, a, b) == IF a = 0 \/ b = 0 THEN v = 0 ELSE v % a = 0 /\ v \div a = b

\* C22: once the iteration i of the loop has run, row i of the design matrix is
\* [1, x, y, x*y, x*x, y*y] with x = floor(i / width) and y = i mod width, and
\* x * width + y = i (so that no two indices share their x and y).
C22_DesignRowIsPolynomialBasis ==
  rowPc # "input" =>
    LET x == rowIndex \div rowWidth
        y == rowIndex % rowWidth
    IN /\ rowPc = "filled"
       /\ designRow[1] = 1
       /\ designRow[2] = x
       /\ designRow[3] = y
       /\ IsProduct(designRow[4], x, y)
       /\ IsProduct(designRow[5], x, x)
       /\ IsProduct(designRow[6], y, y)
       /\ x * rowWidth + y = rowIndex

\* the origin of a tile in pixels, lines 350-351
TileOrigin(row, column) ==
  LET geom == TileGeom(montage, row, column)
  IN <<geom.origin[1] \div geom.spacing[1], geom.origin[2] \div geom.spacing[2]>>

\* the image of the tile is as large as the smaller of the tile and the nominal
\* tile, each pixel of its region is written once and no other pixel, and each
\* pixel holds the value of the data array at its position relative to the origin
\* of the tile
TileMaterialized(key) ==
  LET image == m_ImageGrid[key]
      geom == TileGeom(montage, key[2], key[1])
      origin == TileOrigin(key[2], key[1])
  IN /\ image.size = <<Min(geom.dims[1], m_ImageDim_x), Min(geom.dims[2], m_ImageDim_y)>>
     /\ DOMAIN image.pixels = RegionPixels(image)
     /\ \A px \in DOMAIN image.pixels :
          image.pixels[px] = {<<px[1] - origin[1], px[2] - origin[2]>>}

\* C28: every tile image in the grid, those of row 0 and column 0 of a grid of
\* more than 2 rows or columns included, has the size (min(geomWidth, nominal
\* width), min(geomHeight, nominal height)), has every pixel of its region written
\* exactly once and no pixel outside it, and holds at the global pixel (X, Y) the
\* value of the source array at (X - tileOriginX, Y - tileOriginY).
C28_TilesMaterialized == \A key \in DOMAIN m_ImageGrid : TileMaterialized(key)

\* the bounds after updateRegionBounds was called for the invalid pixels among the
\* first k pixels of the region of pair i, taken one after another in row-major
\* order (the loops of lines 241-258 run by one thread)
RECURSIVE BoundsInOrder(_, _, _, _)
BoundsInOrder(bounds, i, phase, k) ==
  IF k = 0 THEN bounds
  ELSE LET px == PixelSeq(m_Overlaps[i].region)[k]
           before == BoundsInOrder(bounds, i, phase, k - 1)
       IN IF InvalidPixel(i, phase, px, parameters)
          THEN updateRegionBounds(before, m_Overlaps[i].region.size, px)
          ELSE before

\* the bounds of pair i after the two warps of lines 577 and 588 run without any
\* parallelism
SequentialBounds(i) ==
  LET region == m_Overlaps[i].region
      n == Len(PixelSeq(region))
  IN BoundsInOrder(BoundsInOrder(InitialBounds(region), i, 1, n), i, 2, n)

\* C29: for a pair and a parameter vector, whatever the order in which the
\* pixel-range workers processed the pixels of the overlap region, the four bounds
\* left when both warps are done are the ones a single thread going through the
\* pixels in order leaves.
C29_FinalBoundsReproducible ==
  \A i \in 1 .. Len(m_Overlaps) : imagePhase[i] = 3 => pairBounds[i] = SequentialBounds(i)

\* both warps of a pair are done, each worker had an invalid pixel in its rows
\* during the first warp, and the bounds were tightened
C29_Witness ==
  \E i \in 1 .. Len(m_Overlaps) :
    /\ imagePhase[i] = 3
    /\ pairBounds[i] # InitialBounds(m_Overlaps[i].region)
    /\ \A w \in Workers :
         \E k \in DOMAIN WorkerPixels(m_Overlaps[i].region, w) :
           InvalidPixel(i, 1, WorkerPixels(m_Overlaps[i].region, w)[k], parameters)

\* the pairs of keys of an overlap list
OverlapKeyPairs(overlaps) == {overlaps[i].pair : i \in DOMAIN overlaps}

\* the pairs of a key of the grid of a montage with its right and with its bottom
\* neighbour in that grid
MontageNeighbours(m) ==
  LET keys == GridKeys(m.rows, m.cols)
  IN {<<k, <<k[1] + 1, k[2]>>>> : k \in {q \in keys : <<q[1] + 1, q[2]>> \in keys}}
       \cup {<<k, <<k[1], k[2] + 1>>>> : k \in {q \in keys : <<q[1], q[2] + 1>> \in keys}}

\* what one Initialize call on a cost function that was never used leaves for each
\* montage: the grid and the overlap list
FreshGrids == [m \in Montages \cup {NoMontage} |-> GridOf(m)]

FreshOverlaps == [m \in Montages \cup {NoMontage} |-> OverlapsOf(m)]

\* C30: between the calls, and all through a GetValue call, the image grid and the
\* overlap list are the ones a single Initialize call for the montage of the last
\* Initialize call leaves: the keys of the grid are the keys of that montage, the
\* overlap list names each pair of neighbours of the montage once and no other
\* pair; no step of a GetValue call changes the grid or the overlap list.
C30_GridAndOverlapsOfLastInitialize ==
  /\ [](cfPc \in {"idle", "GetValue"} =>
         /\ m_ImageGrid = FreshGrids[montage]
         /\ DOMAIN m_ImageGrid = GridKeys(montage.rows, montage.cols)
         /\ m_Overlaps = FreshOverlaps[montage]
         /\ OverlapKeyPairs(m_Overlaps) = MontageNeighbours(montage)
         /\ Len(m_Overlaps) = Cardinality(MontageNeighbours(montage)))
  /\ [][cfPc = "GetValue" => UNCHANGED <<m_ImageGrid, m_Overlaps>>]_vars

\* a repeated Initialize, for a montage of fewer tiles than the one before, has
\* cleared the grid and put all its tiles in while the overlap list of the earlier
\* montage, with pairs of keys the new grid does not have, is about to be replaced
C30_Witness ==
  /\ cfPc = "Initialize"
  /\ nextTile = NumTiles
  /\ TilesJoined
  /\ DOMAIN m_ImageGrid = GridKeys(montage.rows, montage.cols)
  /\ \E i \in DOMAIN m_Overlaps : m_Overlaps[i].pair[2] \notin DOMAIN m_ImageGrid
  /\ Len(m_Overlaps) > Cardinality(MontageNeighbours(montage))

(***************************************************************************)
(* Properties of updateRegionBounds.                                       *)
(***************************************************************************)
\* the distances of a pixel to the four edges of a region given in the frame of
\* the pixel
DistancesToEdges(region, index) ==
  [distTop |-> index[2] - region.index[2],
   distBot |-> (region.index[2] + region.size[2]) - index[2],
   distLeft |-> index[1] - region.index[1],
   distRight |-> (region.index[1] + region.size[1]) - index[1]]

\* C23: the four distances updateRegionBounds takes for an invalid pixel are the
\* distances of the pixel to the top, bottom, left and right edges of the
\* footprint of the tile the pixels are warped from, the footprint and the pixel
\* index being in the same global pixel frame.
C23_DistancesToSourceFootprint ==
  invalidIndex # <<>> => distances = DistancesToEdges(baseRegion, invalidIndex)

\* C25: during the warp of an overlap pair the bounds stay within the overlap
\* region, topBound and leftBound at or above and bottomBound and rightBound at or
\* below their initial values, and no call of updateRegionBounds moves a bound
\* back toward its initial value.
C25_BoundsOnlyShrink ==
  /\ [](boundsPc \in {"warp", "crop"} =>
         LET b0 == InitialBounds(ovRegion)
         IN /\ b0.topBound <= m_Bounds.topBound /\ m_Bounds.topBound <= b0.bottomBound
            /\ b0.topBound <= m_Bounds.bottomBound /\ m_Bounds.bottomBound <= b0.bottomBound
            /\ b0.leftBound <= m_Bounds.leftBound /\ m_Bounds.leftBound <= b0.rightBound
            /\ b0.leftBound <= m_Bounds.rightBound /\ m_Bounds.rightBound <= b0.rightBound)
  /\ [][boundsPc = "warp" =>
         /\ m_Bounds'.topBound >= m_Bounds.topBound
         /\ m_Bounds'.bottomBound <= m_Bounds.bottomBound
         /\ m_Bounds'.leftBound >= m_Bounds.leftBound
         /\ m_Bounds'.rightBound <= m_Bounds.rightBound]_vars

C25_Witness ==
  /\ boundsPc = "warp"
  /\ invalidIndex # <<>>
  /\ m_Bounds.topBound > InitialBounds(ovRegion).topBound
  /\ m_Bounds.bottomBound < InitialBounds(ovRegion).bottomBound
  /\ m_Bounds.leftBound > InitialBounds(ovRegion).leftBound
  /\ m_Bounds.rightBound < InitialBounds(ovRegion).rightBound

InCroppedRegion(px, region) ==
  /\ px[1] >= region.index[1]
  /\ region.size[1].carry = 1 \/ px[1] < region.index[1] + region.size[1].low
  /\ px[2] >= region.index[2]
  /\ region.size[2].carry = 1 \/ px[2] < region.index[2] + region.size[2].low

\* C24: once both images of the pair are warped and cropped, no pixel that
\* triggered a region-bounds update lies in the cropped region. (The calls of the
\* two warps reach the same bounds with the same region, and come in any order:
\* every pixel that triggered an update is the last one of some run.)
C24_CropExcludesInvalidPixels ==
  (boundsPc = "crop" /\ invalidIndex # <<>>) => ~InCroppedRegion(invalidIndex, croppedRegion)

MinimalDistance(d) == Min(Min(d.distTop, d.distBot), Min(d.distLeft, d.distRight))

\* the first bound, in the order top, bottom, left, right, whose distance is minimal
SelectedBound(d) ==
  IF d.distTop = MinimalDistance(d) THEN "topBound"
  ELSE IF d.distBot = MinimalDistance(d) THEN "bottomBound"
  ELSE IF d.distLeft = MinimalDistance(d) THEN "leftBound"
  ELSE "rightBound"

\* C18: a call of updateRegionBounds for an invalid pixel tightens the one bound
\* whose distance is minimal among distTop, distBot, distLeft, distRight, the first
\* of them in the order top, bottom, left, right when several are minimal (top and
\* left are raised to the pixel's coordinate if it is larger, bottom and right are
\* lowered to it if it is smaller), and leaves the other three bounds as they were.
C18_MinimalDistanceBoundTightened ==
  [][(boundsPc = "warp" /\ boundsPc' = "warp") =>
       LET index == invalidIndex'
           sel == SelectedBound(Distances(ovRegion.size, index))
       IN /\ \A f \in {"topBound", "bottomBound", "leftBound", "rightBound"} \ {sel} :
               m_Bounds'[f] = m_Bounds[f]
          /\ sel = "topBound" => m_Bounds'.topBound = Max(m_Bounds.topBound, index[2])
          /\ sel = "bottomBound" => m_Bounds'.bottomBound = Min(m_Bounds.bottomBound, index[2])
          /\ sel = "leftBound" => m_Bounds'.leftBound = Max(m_Bounds.leftBound, index[1])
          /\ sel = "rightBound" => m_Bounds'.rightBound = Min(m_Bounds.rightBound, index[1])]_vars

C18_Witness ==
  /\ boundsPc = "warp"
  /\ invalidIndex # <<>>
  /\ LET d == Distances(ovRegion.size, invalidIndex)
     IN /\ d.distTop = d.distBot /\ d.distTop = d.distLeft /\ d.distLeft = d.distRight
        /\ m_Bounds.topBound = invalidIndex[2]
        /\ m_Bounds.topBound > InitialBounds(ovRegion).topBound
        /\ m_Bounds.bottomBound = InitialBounds(ovRegion).bottomBound

(***************************************************************************)
(* Properties of createOverlapPairs and of the region rules.               *)
(***************************************************************************)
RightPairs(cropMap) ==
  {<<k, <<k[1] + 1, k[2]>>>> : k \in {q \in DOMAIN cropMap : <<q[1] + 1, q[2]>> \in DOMAIN cropMap}}

BottomPairs(cropMap) ==
  {<<k, <<k[1], k[2] + 1>>>> : k \in {q \in DOMAIN cropMap : <<q[1], q[2] + 1>> \in DOMAIN cropMap}}

PairsOut == {overlapsOut[i].pair : i \in DOMAIN overlapsOut}

\* C8: createOverlapPairs yields one pair (key, right key) for every key whose right
\* neighbour is in the crop map, one pair (key, bottom key) for every key whose
\* bottom neighbour is in the map, each exactly once and no other pair: for the full
\* R x C grid that is R * (C - 1) right pairs and C * (R - 1) bottom pairs.
C8_OverlapPairsAreNeighbours ==
  regionPc = "derived" =>
    /\ PairsOut = RightPairs(cropMapIn) \cup BottomPairs(cropMapIn)
    /\ Len(overlapsOut) = Cardinality(RightPairs(cropMapIn)) + Cardinality(BottomPairs(cropMapIn))
    /\ \A sh \in GridShapes :
         DOMAIN cropMapIn = GridKeys(sh[1], sh[2]) =>
           /\ Cardinality(PairsOut \cap RightPairs(cropMapIn)) = sh[1] * (sh[2] - 1)
           /\ Cardinality(PairsOut \cap BottomPairs(cropMapIn)) = sh[2] * (sh[1] - 1)
           /\ Len(overlapsOut) = sh[1] * (sh[2] - 1) + sh[2] * (sh[1] - 1)

C8_Witness ==
  /\ regionPc = "derived"
  /\ DOMAIN cropMapIn = GridKeys(2, 2)
  /\ Len(overlapsOut) = 4
  /\ Cardinality(PairsOut \cap RightPairs(cropMapIn)) = 2
  /\ Cardinality(PairsOut \cap BottomPairs(cropMapIn)) = 2

IsRightPair(ov) == ov.pair[2] = <<ov.pair[1][1] + 1, ov.pair[1][2]>>
IsBottomPair(ov) == ov.pair[2] = <<ov.pair[1][1], ov.pair[1][2] + 1>>

\* C9: the region of a right-neighbour pair has its origin at (right.leftBound,
\* larger of the two topBounds), the width left.rightBound - right.leftBound and
\* the height smaller of the two bottomBounds minus larger of the two topBounds.
C9_RightRegionGeometry ==
  regionPc = "derived" =>
    \A i \in DOMAIN overlapsOut :
      IsRightPair(overlapsOut[i]) =>
        LET left == cropMapIn[overlapsOut[i].pair[1]]
            right == cropMapIn[overlapsOut[i].pair[2]]
            top == IF left.topBound >= right.topBound THEN left.topBound ELSE right.topBound
            bot == IF left.bottomBound <= right.bottomBound THEN left.bottomBound ELSE right.bottomBound
        IN /\ overlapsOut[i].region.index = <<right.leftBound, top>>
           /\ overlapsOut[i].region.size = <<left.rightBound - right.leftBound, bot - top>>

C9_Witness ==
  /\ regionPc = "derived"
  /\ \E i \in DOMAIN overlapsOut :
       /\ IsRightPair(overlapsOut[i])
       /\ cropMapIn[overlapsOut[i].pair[1]].topBound < cropMapIn[overlapsOut[i].pair[2]].topBound
       /\ cropMapIn[overlapsOut[i].pair[1]].bottomBound > cropMapIn[overlapsOut[i].pair[2]].bottomBound
       /\ overlapsOut[i].region.size[1] > 0
       /\ overlapsOut[i].region.size[2] > 0

\* C10: the region of a bottom-neighbour pair follows the same rule with X and Y
\* swapped: origin (larger of the two leftBounds, bottom.topBound), width smaller
\* of the two rightBounds minus larger of the two leftBounds, height
\* top.bottomBound - bottom.topBound.
C10_BottomRegionGeometry ==
  regionPc = "derived" =>
    \A i \in DOMAIN overlapsOut :
      IsBottomPair(overlapsOut[i]) =>
        LET top == cropMapIn[overlapsOut[i].pair[1]]
            bottom == cropMapIn[overlapsOut[i].pair[2]]
            lft == IF top.leftBound >= bottom.leftBound THEN top.leftBound ELSE bottom.leftBound
            rgt == IF top.rightBound <= bottom.rightBound THEN top.rightBound ELSE bottom.rightBound
        IN /\ overlapsOut[i].region.index = <<lft, bottom.topBound>>
           /\ overlapsOut[i].region.size = <<rgt - lft, top.bottomBound - bottom.topBound>>

C10_Witness ==
  /\ regionPc = "derived"
  /\ \E i \in DOMAIN overlapsOut :
       /\ IsBottomPair(overlapsOut[i])
       /\ cropMapIn[overlapsOut[i].pair[1]].leftBound < cropMapIn[overlapsOut[i].pair[2]].leftBound
       /\ cropMapIn[overlapsOut[i].pair[1]].rightBound > cropMapIn[overlapsOut[i].pair[2]].rightBound
       /\ overlapsOut[i].region.size[1] > 0
       /\ overlapsOut[i].region.size[2] > 0

====
